---- MODULE Spec2Model ----
(***************************************************************************)
(* ResearchFlow: the .rflow front-matter loader, the block parser, the     *)
(* scaffolder and the static-site builder, as state machines.              *)
(*                                                                         *)
(* Text is modelled by TLA+ strings, one character per position, and the   *)
(* Python str methods the code uses (strip, splitlines, join, split) are   *)
(* computed character by character.  The alphabet of the texts is U+0001   *)
(* to U+00FF without the grave accent (U+0060), and U+1680: the characters *)
(* a string of this module can hold that the tables of ord, lower and repr *)
(* cover.  Within it every str method is computed as Python computes it:   *)
(* the whitespace of strip() and of \s, the line boundaries of             *)
(* splitlines(), the order of the code points and the case mapping.        *)
(***************************************************************************)
EXTENDS Integers, Sequences, FiniteSets, TLC

(***************************************************************************)
(* Bounds                                                                  *)
(***************************************************************************)
\* longest body, in lines, handed to parse_rflow
MaxLines == 3
\* longest file text, in lines, handed to load_rflow_file
MaxFileLines == 4
\* most build_site calls in one run
MaxBuilds == 2
\* most create_note / create_experiment calls in one run
MaxCreates == 2
\* lines that follow the opening marker of a block, in SpecBlocks
MaxBlockLines == 4
\* characters of a title, in SpecSlug
MaxTitleLen == 4

(***************************************************************************)
(* Python str helpers                                                      *)
(***************************************************************************)
Char(s, i) == SubSeq(s, i, i)

\* the characters str.strip() removes when called without argument, those
\* str.isspace() is true of and \s matches: U+0009 to U+000D, U+001C to
\* U+0020, U+0085, U+00A0 and U+1680
Whitespace ==
    { "\t", "\n", "", "\f", "\r", "", "", "", "", " ", "", " ", " " }

RECURSIVE lstrip(_, _)
lstrip(s, chars) ==
    IF Len(s) = 0 THEN s
    ELSE IF Char(s, 1) \in chars THEN lstrip(SubSeq(s, 2, Len(s)), chars)
    ELSE s

RECURSIVE rstrip(_, _)
rstrip(s, chars) ==
    IF Len(s) = 0 THEN s
    ELSE IF Char(s, Len(s)) \in chars THEN rstrip(SubSeq(s, 1, Len(s) - 1), chars)
    ELSE s

strip(s, chars) == rstrip(lstrip(s, chars), chars)

startswith(s, prefix) ==
    Len(s) >= Len(prefix) /\ SubSeq(s, 1, Len(prefix)) = prefix

\* 1-based position of the first occurrence of character c in s, 0 if none
RECURSIVE find(_, _, _)
find(s, c, from) ==
    IF from > Len(s) THEN 0
    ELSE IF Char(s, from) = c THEN from
    ELSE find(s, c, from + 1)

\* str.splitlines(): no line for the empty text, no empty last line after a
\* final line break.  The line boundaries are U+000A to U+000D, U+001C to
\* U+001E and U+0085, and "\r\n" is one boundary.
RECURSIVE splitlines(_)
splitlines(text) ==
    LET boundaries == { "\n", "", "\f", "\r", "", "", "", "" }
        \* 1-based position of the first boundary at or after i, 0 if none
        RECURSIVE first(_)
        first(i) ==
            IF i > Len(text) THEN 0
            ELSE IF Char(text, i) \in boundaries THEN i
            ELSE first(i + 1)
        \* position of the last character of the boundary that starts at k
        last(k) ==
            IF Char(text, k) = "\r" /\ k < Len(text) /\ Char(text, k + 1) = "\n"
            THEN k + 1 ELSE k
    IN  IF Len(text) = 0 THEN << >>
        ELSE IF first(1) = 0 THEN << text >>
        ELSE << SubSeq(text, 1, first(1) - 1) >>
                \o splitlines(SubSeq(text, last(first(1)) + 1, Len(text)))

\* "\n".join(ls)
RECURSIVE join(_)
join(ls) ==
    IF Len(ls) = 0 THEN ""
    ELSE IF Len(ls) = 1 THEN ls[1]
    ELSE ls[1] \o "\n" \o join(Tail(ls))

\* Optional[str]: None, or a string
None == [t |-> "none"]
Str(s) == [t |-> "str", s |-> s]

\* dict.get(key) with the default None, and dict[key] = value
get(d, key) == IF key \in DOMAIN d THEN d[key] ELSE None
put(d, key, value) ==
    [k \in DOMAIN d \cup {key} |-> IF k = key THEN value ELSE d[k]]
EmptyDict == [k \in {} |-> None]

(***************************************************************************)
(* model.py: the block variants                                            *)
(***************************************************************************)
MarkdownBlock(content) == [type |-> "markdown", content |-> content]
SummaryBlock(content) == [type |-> "summary", content |-> content]
LogBlock(content) == [type |-> "log", content |-> content]
FigureBlock(path, caption, alt) ==
    [type |-> "figure", path |-> path, caption |-> caption, alt |-> alt]
CodeBlock(language, code, caption) ==
    [type |-> "code", language |-> language, code |-> code, caption |-> caption]

(***************************************************************************)
(* parser.py: the sub-parsers.  Indices are 0-based as in the source, so   *)
(* the line at index i is lines[i + 1].                                    *)
(***************************************************************************)
RECURSIVE ConsumeLoop(_, _, _)
ConsumeLoop(lines, index, collected) ==
    IF index < Len(lines)
    THEN LET line == lines[index + 1] IN
         IF strip(line, Whitespace) = ":::"
         THEN [collected |-> collected, next_index |-> index + 1]
         ELSE ConsumeLoop(lines, index + 1, Append(collected, line))
    ELSE [collected |-> collected, next_index |-> index]

\* a faulty variant: with no closing marker the consumed lines are given
\* back, and scanning resumes right after the opening marker
_consume_until_end_marker_rewind(lines, start_index) ==
    LET r == ConsumeLoop(lines, start_index, << >>) IN
    IF r.next_index > 0 /\ r.next_index <= Len(lines)
          /\ strip(lines[r.next_index], Whitespace) = ":::"
    THEN r
    ELSE [collected |-> r.collected, next_index |-> start_index]

_consume_until_end_marker(lines, start_index) ==
    ConsumeLoop(lines, start_index, << >>)

_parse_summary_block(lines, start_index) ==
    LET r == _consume_until_end_marker(lines, start_index)
        content == strip(join(r.collected), {"\n"})
    IN  [block |-> SummaryBlock(content), next_index |-> r.next_index]

_parse_log_block(lines, start_index) ==
    LET r == _consume_until_end_marker(lines, start_index)
        content == rstrip(join(r.collected), {"\n"})
    IN  [block |-> LogBlock(content), next_index |-> r.next_index]

\* stripped.split(":", 1), both halves stripped
SplitKey(stripped) ==
    strip(SubSeq(stripped, 1, find(stripped, ":", 1) - 1), Whitespace)
SplitValue(stripped) ==
    strip(SubSeq(stripped, find(stripped, ":", 1) + 1, Len(stripped)), Whitespace)

RECURSIVE FigureLoop(_, _, _)
FigureLoop(content_lines, i, data) ==
    IF i > Len(content_lines) THEN data
    ELSE LET stripped == strip(content_lines[i], Whitespace) IN
         IF Len(stripped) = 0 THEN FigureLoop(content_lines, i + 1, data)
         ELSE IF find(stripped, ":", 1) = 0 THEN FigureLoop(content_lines, i + 1, data)
         ELSE FigureLoop(content_lines, i + 1,
                         put(data, SplitKey(stripped), Str(SplitValue(stripped))))

_parse_figure_block(lines, start_index) ==
    LET r == _consume_until_end_marker(lines, start_index)
        data == FigureLoop(r.collected, 1, EmptyDict)
        path == IF "path" \in DOMAIN data THEN data["path"].s ELSE ""
    IN  [block |-> FigureBlock(path, get(data, "caption"), get(data, "alt")),
         next_index |-> r.next_index]

RECURSIVE CodeLoop(_, _, _, _, _)
CodeLoop(content_lines, i, in_header, header, code_lines) ==
    IF i > Len(content_lines) THEN [header |-> header, code_lines |-> code_lines]
    ELSE LET raw_line == content_lines[i]
             stripped == strip(raw_line, Whitespace)
         IN  IF in_header
             THEN IF Len(stripped) = 0
                  THEN CodeLoop(content_lines, i + 1, FALSE, header, code_lines)
                  ELSE IF find(stripped, ":", 1) # 0
                  THEN CodeLoop(content_lines, i + 1, TRUE,
                                put(header, SplitKey(stripped), Str(SplitValue(stripped))),
                                code_lines)
                  ELSE CodeLoop(content_lines, i + 1, FALSE, header,
                                Append(code_lines, raw_line))
             ELSE CodeLoop(content_lines, i + 1, FALSE, header,
                           Append(code_lines, raw_line))

_parse_code_block(lines, start_index) ==
    LET r == _consume_until_end_marker(lines, start_index)
        h == CodeLoop(r.collected, 1, TRUE, EmptyDict, << >>)
        code == rstrip(join(h.code_lines), {"\n"})
    IN  [block |-> CodeBlock(get(h.header, "lang"), code, get(h.header, "caption")),
         next_index |-> r.next_index]

(***************************************************************************)
(* Python values held by the metadata: None, bool, int, float, str, date,  *)
(* list and dict.  An int holds its decimal text and a float the text      *)
(* repr() gives it; a date holds its ISO text; a dict holds its items in   *)
(* insertion order.                                                        *)
(***************************************************************************)
PyBool(b) == [t |-> "bool", b |-> b]
PyInt(s) == [t |-> "int", s |-> s]
PyFloat(s) == [t |-> "float", s |-> s]
PyDate(s) == [t |-> "date", s |-> s]
PyList(l) == [t |-> "list", l |-> l]
PyDict(items) == [t |-> "dict", items |-> items]

UpperCase == "ABCDEFGHIJKLMNOPQRSTUVWXYZ"
LowerCase == "abcdefghijklmnopqrstuvwxyz"
Digits == "0123456789"

\* ord: the code point of each character of the alphabet.  U+0001 to
\* U+005F and U+0061 to U+00FF are found by their position in the two
\* tables.
ord ==
    LET Low ==
            "\t\n\f\r !\"#$%&'()*+,-./0123456789:;<=>?@ABCDEFGHIJKLMNOPQRSTUVWXYZ[\\]^_"
        High ==
            "abcdefghijklmnopqrstuvwxyz{|}~ ¡¢£¤¥¦§¨©ª«¬­®¯°±²³´µ¶·¸¹º»¼½¾¿ÀÁÂÃÄÅÆÇÈÉÊËÌÍÎÏÐÑÒÓÔÕÖ×ØÙÚÛÜÝÞßàáâãäåæçèéêëìíîïðñòóôõö÷øùúûüýþÿ"
    IN  [c \in { Char(Low, i) : i \in 1..Len(Low) }
                \cup { Char(High, i) : i \in 1..Len(High) } \cup { " " } |->
            IF c = " " THEN 5760
            ELSE IF \E i \in 1..Len(Low) : Char(Low, i) = c
                 THEN CHOOSE i \in 1..Len(Low) : Char(Low, i) = c
            ELSE 96 + (CHOOSE i \in 1..Len(High) : Char(High, i) = c)]

\* the characters of a string, as a set
Chars(s) == { Char(s, i) : i \in 1..Len(s) }

\* every character of s is one of chars
AllIn(s, chars) == \A i \in 1..Len(s) : Char(s, i) \in chars

\* str.lower(): the cased characters of the alphabet are A to Z, U+00C0 to
\* U+00D6 and U+00D8 to U+00DE, each 32 below its lower case
RECURSIVE lower(_)
lower(s) ==
    LET Upper == "ABCDEFGHIJKLMNOPQRSTUVWXYZÀÁÂÃÄÅÆÇÈÉÊËÌÍÎÏÐÑÒÓÔÕÖØÙÚÛÜÝÞ"
        Lower == "abcdefghijklmnopqrstuvwxyzàáâãäåæçèéêëìíîïðñòóôõöøùúûüýþ"
    IN  IF Len(s) = 0 THEN s
        ELSE (IF find(Upper, Char(s, 1), 1) = 0 THEN Char(s, 1)
              ELSE Char(Lower, find(Upper, Char(s, 1), 1)))
                \o lower(SubSeq(s, 2, Len(s)))

\* str(n) for a natural number
RECURSIVE Decimal(_)
Decimal(n) ==
    IF n < 10 THEN Char(Digits, n + 1)
    ELSE Decimal(n \div 10) \o Char(Digits, (n % 10) + 1)

\* int(digits, base) for a text of digits of that base
RECURSIVE ToNumber(_, _)
ToNumber(digits, base) ==
    IF Len(digits) = 0 THEN 0
    ELSE ToNumber(SubSeq(digits, 1, Len(digits) - 1), base) * base
            + (find("0123456789abcdef", lower(Char(digits, Len(digits))), 1) - 1)

\* bool(v)
truthy(v) ==
    CASE v.t = "none" -> FALSE
      [] v.t = "bool" -> v.b
      [] v.t = "int" -> v.s # "0"
      [] v.t = "float" -> v.s \notin { "0.0", "-0.0" }
      [] v.t = "str" -> Len(v.s) > 0
      [] v.t = "date" -> TRUE
      [] v.t = "list" -> Len(v.l) > 0
      [] v.t = "dict" -> Len(v.items) > 0

\* repr(v)
RECURSIVE repr(_)
RECURSIVE joinrepr(_)
RECURSIVE joinitems(_)
repr(v) ==
    LET
        \* n in hexadecimal, on that many digits
        RECURSIVE Hex(_, _)
        Hex(n, digits) ==
            IF digits = 0 THEN ""
            ELSE Hex(n \div 16, digits - 1) \o Char("0123456789abcdef", (n % 16) + 1)

        \* the characters of s as repr() writes them between the quotes: a
        \* character that is not printable is written as an escape
        RECURSIVE Escaped(_, _)
        Escaped(s, quote) ==
            IF Len(s) = 0 THEN ""
            ELSE LET c == Char(s, 1) IN
                 (IF c = "\\" THEN "\\\\"
                  ELSE IF c = "\n" THEN "\\n"
                  ELSE IF c = "\t" THEN "\\t"
                  ELSE IF c = "\r" THEN "\\r"
                  ELSE IF c = quote THEN "\\" \o c
                  ELSE IF c \notin DOMAIN ord THEN c
                  ELSE IF ord[c] > 255 THEN "\\u" \o Hex(ord[c], 4)
                  ELSE IF ord[c] < 32 \/ ord[c] \in 127..160 \/ ord[c] = 173
                       THEN "\\x" \o Hex(ord[c], 2)
                  ELSE c) \o Escaped(SubSeq(s, 2, Len(s)), quote)

        \* repr(s) of a str: double quotes when s holds ' and no "
        repr_str(s) ==
            LET quote == IF find(s, "'", 1) # 0 /\ find(s, "\"", 1) = 0 THEN "\"" ELSE "'" IN
            quote \o Escaped(s, quote) \o quote

        \* repr(d) of a datetime.date
        repr_date(s) ==
            "datetime.date(" \o Decimal(ToNumber(SubSeq(s, 1, 4), 10))
                \o ", " \o Decimal(ToNumber(SubSeq(s, 6, 7), 10))
                \o ", " \o Decimal(ToNumber(SubSeq(s, 9, 10), 10)) \o ")"
    IN
        CASE v.t = "none" -> "None"
          [] v.t = "bool" -> IF v.b THEN "True" ELSE "False"
          [] v.t = "int" -> v.s
          [] v.t = "float" -> v.s
          [] v.t = "str" -> repr_str(v.s)
          [] v.t = "date" -> repr_date(v.s)
          [] v.t = "list" -> "[" \o joinrepr(v.l) \o "]"
          [] v.t = "dict" -> "{" \o joinitems(v.items) \o "}"

\* ", ".join(repr(x) for x in l)
joinrepr(l) ==
    IF Len(l) = 0 THEN ""
    ELSE IF Len(l) = 1 THEN repr(l[1])
    ELSE repr(l[1]) \o ", " \o joinrepr(Tail(l))

\* ", ".join(repr(k) + ": " + repr(v) for k, v in d.items())
joinitems(items) ==
    IF Len(items) = 0 THEN ""
    ELSE repr(items[1].k) \o ": " \o repr(items[1].v)
            \o (IF Len(items) = 1 THEN "" ELSE ", " \o joinitems(Tail(items)))

\* str(v)
str(v) ==
    IF v.t \in { "str", "date" } THEN v.s ELSE repr(v)

\* 1-based position of the item of the key, 0 if the dict has none
RECURSIVE ItemIndex(_, _, _)
ItemIndex(items, key, i) ==
    LET
        \* the number a bool, an int or a float is as a dict key: True == 1 == 1.0
        Numeric(v) == v.t \in { "bool", "int", "float" }
        Number(v) ==
            CASE v.t = "bool" -> IF v.b THEN "1" ELSE "0"
              [] v.t = "int" -> v.s
              [] v.t = "float" ->
                    LET whole == IF Len(v.s) > 2 /\ SubSeq(v.s, Len(v.s) - 1, Len(v.s)) = ".0"
                                 THEN SubSeq(v.s, 1, Len(v.s) - 2) ELSE v.s
                    IN  IF whole = "-0" THEN "0" ELSE whole

        \* a == b for two keys of a dict
        KeyEqual(a, b) ==
            IF Numeric(a) /\ Numeric(b) THEN Number(a) = Number(b)
            ELSE a.t = b.t /\ a = b
    IN
        IF i > Len(items) THEN 0
        ELSE IF KeyEqual(items[i].k, key) THEN i
        ELSE ItemIndex(items, key, i + 1)

\* d.get(key) for a str key, with the default None
dict_get(d, key) ==
    LET i == ItemIndex(d.items, Str(key), 1) IN
    IF i = 0 THEN None ELSE d.items[i].v

\* d[key] = value: an equal key keeps its place and its first spelling
dict_set(items, key, value) ==
    LET i == ItemIndex(items, key, 1) IN
    IF i = 0 THEN Append(items, [k |-> key, v |-> value])
    ELSE [items EXCEPT ![i] = [k |-> items[i].k, v |-> value]]

(***************************************************************************)
(* yaml.safe_load: PyYAML's scanner, parser and safe constructor on a      *)
(* subset of YAML 1.1.  Modelled: block mappings with simple keys, block   *)
(* sequences (also without indentation under a key), flow sequences and    *)
(* quoted scalars that end on the line they start on, plain scalars with   *)
(* their folding over lines, comments, and the implicit types null, bool,  *)
(* int, float, date and str.  The outcome is a value, a yaml.YAMLError or  *)
(* the ValueError of a constructor.  A character the reader of PyYAML     *)
(* rejects (a control character other than tab, line feed, carriage       *)
(* return and U+0085) is a yaml.YAMLError.  Outside the subset the outcome *)
(* is "UnmodelledYAML": a carriage return or U+0085 (line breaks the       *)
(* loader never hands over), a tab outside quotes, a document              *)
(* marker or directive, an anchor, alias or tag, a block scalar, a flow    *)
(* mapping, a "? " key or a ": " without key, a ":" or "?" inside a flow   *)
(* sequence, an escape other than backslash, double quote, n and t, a      *)
(* float with an exponent, without integer part, infinite, NaN, in base 60 *)
(* or of more than 15 digits, a timestamp with a time, an int in base 2,   *)
(* 8, 16 or 60 of more than 30 bits, and the merge key.                    *)
(***************************************************************************)
\* the tokens of the stream: the scanner run to the end of the stream
scan(stream) ==
    LET
        EOF == ""
        \* Reader.check_printable: the characters of the alphabet outside
        \* \x09 \x0A \x0D \x20-\x7E \x85 \xA0-\uD7FF
        NonPrintable(c) ==
            /\ c \in DOMAIN ord
            /\ \/ ord[c] < 32 /\ ord[c] \notin { 9, 10, 13 }
               \/ ord[c] \in 127..159 /\ ord[c] # 133

        \* the character at a position of the text, EOF past its end
        Peek(text, pos) == IF pos <= Len(text) THEN Char(text, pos) ELSE EOF

        \* end of the text, a blank or a line break
        BlankOrBreak == { EOF, " ", "\t", "\n" }

        \* "---" or "..." followed by a blank, at the first column
        DocumentMarker(text, pos) ==
            /\ pos + 2 <= Len(text)
            /\ SubSeq(text, pos, pos + 2) \in { "---", "..." }
            /\ Peek(text, pos + 3) \in BlankOrBreak

        Token(type, value, plain) == [type |-> type, value |-> value, plain |-> plain]
        Mark(type) == Token(type, "", FALSE)

        NoKey == [possible |-> FALSE, token_number |-> 0, required |-> FALSE,
                  index |-> 0, line |-> 0, column |-> 0]

        \* the scanner before its first token; positions are 1-based, lines and
        \* columns 0-based
        Scanner(text) ==
            [text |-> text, pos |-> 1, line |-> 0, column |-> 0, flow_level |-> 0,
             indent |-> -1, indents |-> << >>, allow_simple_key |-> TRUE,
             key |-> NoKey, tokens |-> << >>, done |-> FALSE, error |-> ""]

        Fail(S, error) == [S EXCEPT !.error = error, !.done = TRUE]

        \* forward(n) inside a line, and over a line break
        Forward(S, n) == [S EXCEPT !.pos = @ + n, !.column = @ + n]
        ForwardBreak(S) == [S EXCEPT !.pos = @ + 1, !.line = @ + 1, !.column = 0]

        Emit(S, token) == [S EXCEPT !.tokens = Append(@, token)]

        \* the position of the first character at or after pos that is no space
        RECURSIVE SkipSpaces(_, _)
        SkipSpaces(text, pos) ==
            IF Peek(text, pos) = " " THEN SkipSpaces(text, pos + 1) ELSE pos

        \* the position of the end of the line of pos
        RECURSIVE SkipLine(_, _)
        SkipLine(text, pos) ==
            IF Peek(text, pos) \in { EOF, "\n" } THEN pos ELSE SkipLine(text, pos + 1)

        \* scan_to_next_token: skip spaces, comments and line breaks
        RECURSIVE scan_to_next_token(_)
        scan_to_next_token(S) ==
            LET spaces == SkipSpaces(S.text, S.pos)
                stop == IF Peek(S.text, spaces) = "#" THEN SkipLine(S.text, spaces) ELSE spaces
                T == Forward(S, stop - S.pos)
            IN  IF Peek(S.text, stop) # "\n" THEN T
                ELSE IF S.flow_level # 0 THEN Fail(T, "UnmodelledYAML")
                ELSE scan_to_next_token([ForwardBreak(T) EXCEPT !.allow_simple_key = TRUE])

        \* stale_possible_simple_keys: a key ends on the line it starts on, within
        \* 1024 characters
        stale_possible_simple_keys(S) ==
            IF S.key.possible /\ (S.key.line # S.line \/ S.pos - S.key.index > 1024)
            THEN IF S.key.required THEN Fail(S, "YAMLError") ELSE [S EXCEPT !.key = NoKey]
            ELSE S

        remove_possible_simple_key(S) ==
            IF S.flow_level = 0 /\ S.key.possible
            THEN IF S.key.required THEN Fail(S, "YAMLError") ELSE [S EXCEPT !.key = NoKey]
            ELSE S

        save_possible_simple_key(S) ==
            IF S.flow_level = 0 /\ S.allow_simple_key
            THEN LET R == remove_possible_simple_key(S) IN
                 IF R.error # "" THEN R
                 ELSE [R EXCEPT !.key = [possible |-> TRUE, token_number |-> Len(S.tokens),
                                         required |-> S.indent = S.column,
                                         index |-> S.pos, line |-> S.line,
                                         column |-> S.column]]
            ELSE S

        \* unwind_indent: close the block collections indented more than the column
        RECURSIVE unwind_indent(_, _)
        unwind_indent(S, column) ==
            IF S.flow_level = 0 /\ S.indent > column
            THEN unwind_indent([S EXCEPT !.indent = S.indents[Len(S.indents)],
                                         !.indents = SubSeq(@, 1, Len(@) - 1),
                                         !.tokens = Append(@, Mark("BLOCK-END"))], column)
            ELSE S

        \* add_indent, with the token that opens the collection put at position n
        add_indent(S, column, n, type) ==
            IF S.indent < column
            THEN [S EXCEPT !.indents = Append(@, S.indent), !.indent = column,
                           !.tokens = SubSeq(@, 1, n) \o << Mark(type) >> \o SubSeq(@, n + 1, Len(@))]
            ELSE S

        \* the length of the chunk of a plain scalar at pos, -1 where a flow
        \* sequence holds ":" or "?"
        RECURSIVE PlainLength(_, _)
        PlainLength(S, length) ==
            LET ch == Peek(S.text, S.pos + length) IN
            IF ch \in BlankOrBreak THEN length
            ELSE IF S.flow_level # 0
                 THEN IF ch \in { ":", "?" } THEN -1
                      ELSE IF ch \in { ",", "[", "]", "{", "}" } THEN length
                      ELSE PlainLength(S, length + 1)
            ELSE IF ch = ":" /\ Peek(S.text, S.pos + length + 1) \in BlankOrBreak THEN length
            ELSE PlainLength(S, length + 1)

        \* the blank lines that follow a line break inside a plain scalar
        RECURSIVE PlainBreaks(_, _)
        PlainBreaks(S, breaks) ==
            IF S.column = 0 /\ DocumentMarker(S.text, S.pos)
            THEN [S |-> Fail(S, "UnmodelledYAML"), spaces |-> ""]
            ELSE IF Peek(S.text, S.pos) = " " THEN PlainBreaks(Forward(S, 1), breaks)
            ELSE IF Peek(S.text, S.pos) = "\n" THEN PlainBreaks(ForwardBreak(S), breaks \o "\n")
            ELSE IF Peek(S.text, S.pos) = "\t" THEN [S |-> Fail(S, "UnmodelledYAML"), spaces |-> ""]
            ELSE [S |-> S, spaces |-> IF breaks = "" THEN " " ELSE breaks]

        \* scan_plain_spaces: the blanks after a chunk; one line break folds into a
        \* space, a line break and k blank lines into k line breaks
        scan_plain_spaces(S) ==
            LET stop == SkipSpaces(S.text, S.pos)
                T == Forward(S, stop - S.pos)
                ch == Peek(S.text, stop)
            IN  IF ch = "\t" THEN [S |-> Fail(T, "UnmodelledYAML"), spaces |-> ""]
                ELSE IF ch = "\n"
                     THEN IF S.flow_level # 0
                          THEN [S |-> Fail(T, "UnmodelledYAML"), spaces |-> ""]
                          ELSE PlainBreaks([ForwardBreak(T) EXCEPT !.allow_simple_key = TRUE], "")
                ELSE [S |-> T, spaces |-> SubSeq(S.text, S.pos, stop - 1)]

        \* scan_plain: the chunks of a plain scalar and the blanks between them
        RECURSIVE scan_plain(_, _, _, _)
        scan_plain(S, chunks, spaces, indent) ==
            LET length == IF Peek(S.text, S.pos) = "#" THEN 0 ELSE PlainLength(S, 0) IN
            IF length = -1 THEN Fail(S, "UnmodelledYAML")
            ELSE IF length = 0 THEN Emit(S, Token("SCALAR", chunks, TRUE))
            ELSE LET text == chunks \o spaces \o SubSeq(S.text, S.pos, S.pos + length - 1)
                     r == scan_plain_spaces([Forward(S, length) EXCEPT !.allow_simple_key = FALSE])
                 IN  IF r.S.error # "" THEN r.S
                     ELSE IF r.spaces = "" \/ Peek(r.S.text, r.S.pos) = "#"
                                \/ (r.S.flow_level = 0 /\ r.S.column < indent)
                          THEN Emit(r.S, Token("SCALAR", text, TRUE))
                     ELSE scan_plain(r.S, text, r.spaces, indent)

        \* scan_flow_scalar: a quoted scalar, S at the character after the quote
        RECURSIVE scan_flow_scalar(_, _, _)
        scan_flow_scalar(S, quote, chunks) ==
            LET ch == Peek(S.text, S.pos)
                nxt == Peek(S.text, S.pos + 1)
            IN  IF ch \in { EOF, "\n" }
                THEN IF find(S.text, quote, S.pos) # 0
                     THEN Fail(S, "UnmodelledYAML") ELSE Fail(S, "YAMLError")
                ELSE IF ch = quote
                     THEN IF quote = "'" /\ nxt = "'"
                          THEN scan_flow_scalar(Forward(S, 2), quote, chunks \o "'")
                          ELSE Emit(Forward(S, 1), Token("SCALAR", chunks, FALSE))
                ELSE IF quote = "\"" /\ ch = "\\"
                     THEN IF nxt \in { "\\", "\"" }
                          THEN scan_flow_scalar(Forward(S, 2), quote, chunks \o nxt)
                          ELSE IF nxt = "n" THEN scan_flow_scalar(Forward(S, 2), quote, chunks \o "\n")
                          ELSE IF nxt = "t" THEN scan_flow_scalar(Forward(S, 2), quote, chunks \o "\t")
                          ELSE Fail(S, "UnmodelledYAML")
                ELSE scan_flow_scalar(Forward(S, 1), quote, chunks \o ch)

        \* fetch_value: ":" after a simple key puts KEY, and BLOCK-MAPPING-START
        \* where the key is indented more, in front of the key
        fetch_value(S) ==
            IF S.key.possible
            THEN LET n == S.key.token_number
                     K == [S EXCEPT !.tokens = SubSeq(@, 1, n) \o << Mark("KEY") >>
                                                    \o SubSeq(@, n + 1, Len(@)),
                                    !.key = NoKey, !.allow_simple_key = FALSE]
                 IN  Emit(Forward(add_indent(K, S.key.column, n, "BLOCK-MAPPING-START"), 1),
                          Mark("VALUE"))
            ELSE IF ~S.allow_simple_key THEN Fail(S, "YAMLError")
            ELSE Fail(S, "UnmodelledYAML")

        \* fetch_block_entry: "-" before a blank; the block context alone
        \* checks that an entry may start here and opens the sequence
        fetch_block_entry(S) ==
            IF S.flow_level = 0 /\ ~S.allow_simple_key THEN Fail(S, "YAMLError")
            ELSE LET A == IF S.flow_level = 0
                          THEN add_indent(S, S.column, Len(S.tokens), "BLOCK-SEQUENCE-START")
                          ELSE S
                     R == remove_possible_simple_key([A EXCEPT !.allow_simple_key = TRUE])
                 IN  IF R.error # "" THEN R ELSE Emit(Forward(R, 1), Mark("BLOCK-ENTRY"))

        \* the characters that start no plain scalar
        Indicators ==
            { "-", "?", ":", ",", "[", "]", "{", "}", "#", "&", "*", "!", "|", ">", "'", "\"",
              "%", "@" }

        \* fetch_more_tokens: the next token, or the tokens, of the text
        fetch_more_tokens(S0) ==
            LET S1 == scan_to_next_token(S0)
                S2 == stale_possible_simple_keys(S1)
                S == unwind_indent(S2, S2.column)
                ch == Peek(S.text, S.pos)
                nxt == Peek(S.text, S.pos + 1)
            IN  IF S1.error # "" THEN S1
                ELSE IF S2.error # "" THEN S2
                ELSE IF ch = EOF
                     THEN LET R == remove_possible_simple_key(unwind_indent(S, -1)) IN
                          IF R.error # "" THEN R
                          ELSE [Emit(R, Mark("STREAM-END")) EXCEPT !.done = TRUE]
                ELSE IF ch = "\t" THEN Fail(S, "UnmodelledYAML")
                ELSE IF S.column = 0 /\ DocumentMarker(S.text, S.pos) THEN Fail(S, "UnmodelledYAML")
                ELSE IF ch = "%" /\ S.column = 0 THEN Fail(S, "UnmodelledYAML")
                ELSE IF ch \in { "{", "}", "&", "*", "!" } THEN Fail(S, "UnmodelledYAML")
                ELSE IF ch \in { "|", ">" } /\ S.flow_level = 0 THEN Fail(S, "UnmodelledYAML")
                ELSE IF ch \in { "?", ":" } /\ (S.flow_level # 0 \/ nxt \in BlankOrBreak)
                     THEN IF ch = ":" /\ S.flow_level = 0 THEN fetch_value(S)
                          ELSE Fail(S, "UnmodelledYAML")
                ELSE IF ch = "["
                     THEN LET K == save_possible_simple_key(S) IN
                          IF K.error # "" THEN K
                          ELSE Emit([Forward(K, 1) EXCEPT !.flow_level = @ + 1,
                                                          !.allow_simple_key = TRUE],
                                    Mark("FLOW-SEQUENCE-START"))
                ELSE IF ch = "]"
                     THEN LET R == remove_possible_simple_key(S) IN
                          IF R.error # "" THEN R
                          ELSE Emit([Forward(R, 1) EXCEPT !.flow_level = @ - 1,
                                                          !.allow_simple_key = FALSE],
                                    Mark("FLOW-SEQUENCE-END"))
                ELSE IF ch = ","
                     THEN LET R == remove_possible_simple_key(
                                       [S EXCEPT !.allow_simple_key = TRUE]) IN
                          IF R.error # "" THEN R
                          ELSE Emit(Forward(R, 1), Mark("FLOW-ENTRY"))
                ELSE IF ch = "-" /\ nxt \in BlankOrBreak THEN fetch_block_entry(S)
                ELSE IF ch \in { "'", "\"" }
                     THEN LET K == save_possible_simple_key(S) IN
                          IF K.error # "" THEN K
                          ELSE scan_flow_scalar([Forward(K, 1) EXCEPT !.allow_simple_key = FALSE],
                                                ch, "")
                ELSE IF ch \notin Indicators
                          \/ (nxt \notin BlankOrBreak
                                /\ (ch = "-" \/ (S.flow_level = 0 /\ ch \in { "?", ":" })))
                     THEN LET K == save_possible_simple_key(S) IN
                          IF K.error # "" THEN K
                          ELSE scan_plain([K EXCEPT !.allow_simple_key = FALSE], "", "",
                                          K.indent + 1)
                ELSE Fail(S, "YAMLError")

        \* fetch_more_tokens until the end of the stream
        RECURSIVE ScanTokens(_)
        ScanTokens(S) == IF S.done THEN S ELSE ScanTokens(fetch_more_tokens(S))
    IN
        IF \E i \in 1..Len(stream) : NonPrintable(Char(stream, i))
        THEN Fail(Scanner(stream), "YAMLError")
        ELSE IF \E i \in 1..Len(stream) :
                    Char(stream, i) \notin DOMAIN ord \/ ord[Char(stream, i)] \in { 13, 133 }
        THEN Fail(Scanner(stream), "UnmodelledYAML")
        ELSE ScanTokens(Scanner(stream))

(***************************************************************************)
(* The parser and the composer: the node tree of the tokens.  A result is  *)
(* the node, the 1-based position of the next token and whether the        *)
(* tokens were as the grammar expects.                                     *)
(***************************************************************************)
\* the one document of the stream; next token 0 for an empty stream
get_single_node(stream) ==
    LET
        ScalarNode(value, plain) == [kind |-> "scalar", value |-> value, plain |-> plain]
        SequenceNode(items) == [kind |-> "sequence", items |-> items]
        MappingNode(pairs) == [kind |-> "mapping", pairs |-> pairs]

        \* process_empty_scalar
        EmptyScalar == ScalarNode("", TRUE)

        Parsed(node, i) == [ok |-> TRUE, node |-> node, i |-> i]
        ParserError == [ok |-> FALSE, node |-> EmptyScalar, i |-> 0]

        check_token(tokens, i, types) == tokens[i].type \in types

        RECURSIVE parse_node(_, _, _, _)
        RECURSIVE parse_block_sequence_entry(_, _, _)
        RECURSIVE parse_indentless_sequence_entry(_, _, _)
        RECURSIVE parse_block_mapping_key(_, _, _)
        RECURSIVE parse_flow_sequence_entry(_, _, _, _)

        \* parse_node(block, indentless_sequence)
        parse_node(tokens, i, block, indentless_sequence) ==
            IF indentless_sequence /\ check_token(tokens, i, { "BLOCK-ENTRY" })
            THEN parse_indentless_sequence_entry(tokens, i, << >>)
            ELSE IF check_token(tokens, i, { "SCALAR" })
                 THEN Parsed(ScalarNode(tokens[i].value, tokens[i].plain), i + 1)
            ELSE IF check_token(tokens, i, { "FLOW-SEQUENCE-START" })
                 THEN parse_flow_sequence_entry(tokens, i + 1, << >>, TRUE)
            ELSE IF block /\ check_token(tokens, i, { "BLOCK-SEQUENCE-START" })
                 THEN parse_block_sequence_entry(tokens, i + 1, << >>)
            ELSE IF block /\ check_token(tokens, i, { "BLOCK-MAPPING-START" })
                 THEN parse_block_mapping_key(tokens, i + 1, << >>)
            ELSE ParserError

        parse_block_sequence_entry(tokens, i, items) ==
            IF check_token(tokens, i, { "BLOCK-ENTRY" })
            THEN IF check_token(tokens, i + 1, { "BLOCK-ENTRY", "BLOCK-END" })
                 THEN parse_block_sequence_entry(tokens, i + 1, Append(items, EmptyScalar))
                 ELSE LET r == parse_node(tokens, i + 1, TRUE, FALSE) IN
                      IF ~r.ok THEN r
                      ELSE parse_block_sequence_entry(tokens, r.i, Append(items, r.node))
            ELSE IF check_token(tokens, i, { "BLOCK-END" })
                 THEN Parsed(SequenceNode(items), i + 1)
            ELSE ParserError

        parse_indentless_sequence_entry(tokens, i, items) ==
            IF check_token(tokens, i, { "BLOCK-ENTRY" })
            THEN IF check_token(tokens, i + 1, { "BLOCK-ENTRY", "KEY", "VALUE", "BLOCK-END" })
                 THEN parse_indentless_sequence_entry(tokens, i + 1, Append(items, EmptyScalar))
                 ELSE LET r == parse_node(tokens, i + 1, TRUE, FALSE) IN
                      IF ~r.ok THEN r
                      ELSE parse_indentless_sequence_entry(tokens, r.i, Append(items, r.node))
            ELSE Parsed(SequenceNode(items), i)

        \* parse_block_mapping_key with parse_block_mapping_value: one pair a turn
        parse_block_mapping_key(tokens, i, pairs) ==
            IF check_token(tokens, i, { "KEY" })
            THEN LET k == IF check_token(tokens, i + 1, { "KEY", "VALUE", "BLOCK-END" })
                          THEN Parsed(EmptyScalar, i + 1)
                          ELSE parse_node(tokens, i + 1, TRUE, TRUE)
                 IN  IF ~k.ok THEN k
                     ELSE LET v == IF ~check_token(tokens, k.i, { "VALUE" })
                                   THEN Parsed(EmptyScalar, k.i)
                                   ELSE IF check_token(tokens, k.i + 1, { "KEY", "VALUE", "BLOCK-END" })
                                        THEN Parsed(EmptyScalar, k.i + 1)
                                   ELSE parse_node(tokens, k.i + 1, TRUE, TRUE)
                          IN  IF ~v.ok THEN v
                              ELSE parse_block_mapping_key(tokens, v.i,
                                                           Append(pairs, << k.node, v.node >>))
            ELSE IF check_token(tokens, i, { "BLOCK-END" })
                 THEN Parsed(MappingNode(pairs), i + 1)
            ELSE ParserError

        parse_flow_sequence_entry(tokens, i, items, first) ==
            IF check_token(tokens, i, { "FLOW-SEQUENCE-END" })
            THEN Parsed(SequenceNode(items), i + 1)
            ELSE IF ~first /\ ~check_token(tokens, i, { "FLOW-ENTRY" }) THEN ParserError
            ELSE LET j == IF first THEN i ELSE i + 1 IN
                 IF check_token(tokens, j, { "FLOW-SEQUENCE-END" })
                 THEN Parsed(SequenceNode(items), j + 1)
                 ELSE LET r == parse_node(tokens, j, FALSE, FALSE) IN
                      IF ~r.ok THEN r
                      ELSE parse_flow_sequence_entry(tokens, r.i, Append(items, r.node), FALSE)
    IN
        IF check_token(stream, 1, { "STREAM-END" }) THEN Parsed(EmptyScalar, 0)
        ELSE LET r == parse_node(stream, 1, TRUE, FALSE) IN
             IF r.ok /\ ~check_token(stream, r.i, { "STREAM-END" }) THEN ParserError
             ELSE r

(***************************************************************************)
(* The resolver and the safe constructor: the value of a node, or the      *)
(* error of its construction                                               *)
(***************************************************************************)
Constructed(value) == [error |-> "", value |-> value]
ConstructorFails(error) == [error |-> error, value |-> None]

\* the value of a scalar: a quoted one is a str, a plain one is of the
\* first type whose pattern it matches
construct_scalar(scalar, plain) ==
    LET
        DigitChars == Chars(Digits)
        NonZeroDigits == Chars("123456789")

        \* s without its sign
        Unsigned(s) ==
            IF Len(s) > 0 /\ Char(s, 1) \in { "-", "+" } THEN SubSeq(s, 2, Len(s)) ELSE s

        \* s.replace(c, "")
        RECURSIVE Without(_, _)
        Without(s, c) ==
            IF Len(s) = 0 THEN s
            ELSE (IF Char(s, 1) = c THEN "" ELSE Char(s, 1)) \o Without(SubSeq(s, 2, Len(s)), c)

        \* s.split(":")
        RECURSIVE SplitColons(_)
        SplitColons(s) ==
            LET k == find(s, ":", 1) IN
            IF k = 0 THEN << s >>
            ELSE << SubSeq(s, 1, k - 1) >> \o SplitColons(SubSeq(s, k + 1, Len(s)))

        IsNull(s) == s \in { "", "~", "null", "Null", "NULL" }

        IsBool(s) ==
            s \in { "yes", "Yes", "YES", "no", "No", "NO", "true", "True", "TRUE",
                    "false", "False", "FALSE", "on", "On", "ON", "off", "Off", "OFF" }

        \* [1-9][0-9_]*
        IsDecimalHead(u) ==
            Len(u) > 0 /\ Char(u, 1) \in NonZeroDigits
                /\ AllIn(SubSeq(u, 2, Len(u)), DigitChars \cup { "_" })

        \* 0b[0-1_]+
        IsBinary(u) ==
            Len(u) > 2 /\ SubSeq(u, 1, 2) = "0b" /\ AllIn(SubSeq(u, 3, Len(u)), { "0", "1", "_" })

        \* 0x[0-9a-fA-F_]+
        IsHex(u) ==
            Len(u) > 2 /\ SubSeq(u, 1, 2) = "0x"
                /\ AllIn(SubSeq(u, 3, Len(u)), Chars("0123456789abcdefABCDEF_"))

        \* 0[0-7_]+
        IsOctal(u) ==
            Len(u) > 1 /\ Char(u, 1) = "0" /\ AllIn(SubSeq(u, 2, Len(u)), Chars("01234567_"))

        \* 0|[1-9][0-9_]*
        IsDecimal(u) == u = "0" \/ IsDecimalHead(u)

        \* (:[0-5]?[0-9])+ after the first of the parts
        IsBase60(parts) ==
            /\ Len(parts) >= 2
            /\ \A i \in 2..Len(parts) :
                  \/ Len(parts[i]) = 1 /\ parts[i] \in DigitChars
                  \/ Len(parts[i]) = 2 /\ Char(parts[i], 1) \in Chars("012345")
                        /\ Char(parts[i], 2) \in DigitChars

        \* [1-9][0-9_]*(:[0-5]?[0-9])+
        IsSexagesimal(u) ==
            LET parts == SplitColons(u) IN IsBase60(parts) /\ IsDecimalHead(parts[1])

        \* the int pattern of the resolver
        IsInt(s) ==
            LET u == Unsigned(s) IN
            IsBinary(u) \/ IsOctal(u) \/ IsDecimal(u) \/ IsHex(u) \/ IsSexagesimal(u)

        \* [-+]?[0-9][0-9_]*\.[0-9_]*
        IsFloat(s) ==
            LET u == Unsigned(s)
                k == find(u, ".", 1)
            IN  /\ k >= 2
                /\ Char(u, 1) \in DigitChars
                /\ AllIn(SubSeq(u, 1, k - 1), DigitChars \cup { "_" })
                /\ AllIn(SubSeq(u, k + 1, Len(u)), DigitChars \cup { "_" })

        \* [-+][0-9]+
        IsExponent(e) ==
            Len(e) > 1 /\ Char(e, 1) \in { "-", "+" } /\ AllIn(SubSeq(e, 2, Len(e)), DigitChars)

        \* [0-9][0-9_]*
        IsDigitHead(m) ==
            Len(m) > 0 /\ Char(m, 1) \in DigitChars /\ AllIn(m, DigitChars \cup { "_" })

        \* the other forms of the float pattern: an exponent, no integer part,
        \* base 60, infinity and NaN
        IsOtherFloat(s) ==
            LET u == Unsigned(s)
                k == find(u, ".", 1)
                head == SubSeq(u, 1, k - 1)
                tail == SubSeq(u, k + 1, Len(u))
                e == IF find(tail, "e", 1) # 0 THEN find(tail, "e", 1) ELSE find(tail, "E", 1)
                mantissa == SubSeq(tail, 1, e - 1)
            IN  \/ s \in { ".nan", ".NaN", ".NAN" }
                \/ u \in { ".inf", ".Inf", ".INF" }
                \/ /\ k # 0
                   /\ IF e # 0
                      THEN /\ IsExponent(SubSeq(tail, e + 1, Len(tail)))
                           /\ IF head = "" THEN s = u /\ IsDigitHead(mantissa)
                              ELSE IsDigitHead(head) /\ AllIn(mantissa, DigitChars \cup { "_" })
                      ELSE IF head = "" THEN s = u /\ IsDigitHead(tail)
                      ELSE /\ IsBase60(SplitColons(head))
                           /\ IsDigitHead(SplitColons(head)[1])
                           /\ AllIn(tail, DigitChars \cup { "_" })

        \* yyyy-mm-dd
        IsDate(s) ==
            /\ Len(s) = 10
            /\ Char(s, 5) = "-" /\ Char(s, 8) = "-"
            /\ AllIn(SubSeq(s, 1, 4) \o SubSeq(s, 6, 7) \o SubSeq(s, 9, 10), DigitChars)

        \* the length of the run of digits s starts with
        RECURSIVE DigitRun(_, _)
        DigitRun(s, n) ==
            IF n < Len(s) /\ Char(s, n + 1) \in DigitChars THEN DigitRun(s, n + 1) ELSE n

        \* the character at a position of s, "" past its end
        Peek(text, pos) == IF pos <= Len(text) THEN Char(text, pos) ELSE ""

        \* yyyy-m-d, "T" or spaces, and an hour with its ":": the start of a
        \* timestamp with a time
        IsOtherTimestamp(s) ==
            /\ Len(s) >= 10
            /\ AllIn(SubSeq(s, 1, 4), DigitChars) /\ Char(s, 5) = "-"
            /\ LET month == SubSeq(s, 6, Len(s))
                   m == DigitRun(month, 0)
                   day == SubSeq(month, m + 2, Len(month))
                   d == DigitRun(day, 0)
                   sep == SubSeq(day, d + 1, Len(day))
                   time == IF Peek(sep, 1) \in { "T", "t" } THEN SubSeq(sep, 2, Len(sep))
                           ELSE lstrip(sep, { " " })
                   h == DigitRun(time, 0)
               IN  /\ m \in { 1, 2 } /\ Peek(month, m + 1) = "-"
                   /\ d \in { 1, 2 } /\ Peek(sep, 1) \in { "T", "t", " " }
                   /\ h \in { 1, 2 } /\ Peek(time, h + 1) = ":"

        \* text.lstrip("0") or "0"
        StripZeros(digits) ==
            LET d == lstrip(digits, { "0" }) IN IF d = "" THEN "0" ELSE d

        \* the value of c digits in base 60, most significant first
        RECURSIVE Base60(_, _)
        Base60(parts, n) ==
            IF Len(parts) = 0 THEN n
            ELSE Base60(Tail(parts), n * 60 + ToNumber(parts[1], 10))

        \* construct_yaml_int
        construct_yaml_int(s) ==
            LET value == Unsigned(Without(s, "_"))
                negative == Char(s, 1) = "-"
                Signed(text) == Constructed(PyInt(IF negative /\ text # "0" THEN "-" \o text ELSE text))
                digits == SubSeq(value, 3, Len(value))
                parts == SplitColons(value)
            IN  IF value = "0" THEN Signed("0")
                ELSE IF startswith(value, "0b")
                     THEN IF digits = "" THEN ConstructorFails("ValueError")
                          ELSE IF Len(StripZeros(digits)) > 30 THEN ConstructorFails("UnmodelledYAML")
                          ELSE Signed(Decimal(ToNumber(digits, 2)))
                ELSE IF startswith(value, "0x")
                     THEN IF digits = "" THEN ConstructorFails("ValueError")
                          ELSE IF Len(StripZeros(digits)) > 7 THEN ConstructorFails("UnmodelledYAML")
                          ELSE Signed(Decimal(ToNumber(digits, 16)))
                ELSE IF Char(value, 1) = "0"
                     THEN IF Len(StripZeros(value)) > 10 THEN ConstructorFails("UnmodelledYAML")
                          ELSE Signed(Decimal(ToNumber(StripZeros(value), 8)))
                ELSE IF Len(parts) > 1
                     THEN IF Len(parts) > 3 \/ Len(parts[1]) > 5 THEN ConstructorFails("UnmodelledYAML")
                          ELSE Signed(Decimal(Base60(parts, 0)))
                ELSE Signed(value)

        \* construct_yaml_float, with the text repr() gives the float
        construct_yaml_float(s) ==
            LET value == Unsigned(Without(s, "_"))
                k == find(value, ".", 1)
                whole == StripZeros(SubSeq(value, 1, k - 1))
                frac == rstrip(SubSeq(value, k + 1, Len(value)), { "0" })
                significant == lstrip((IF whole = "0" THEN "" ELSE whole) \o frac, { "0" })
            IN  IF Len(significant) > 15 \/ Len(whole) > 16 THEN ConstructorFails("UnmodelledYAML")
                ELSE IF whole = "0" /\ startswith(frac, "0000") THEN ConstructorFails("UnmodelledYAML")
                ELSE Constructed(PyFloat((IF Char(s, 1) = "-" THEN "-" ELSE "")
                                            \o whole \o "." \o (IF frac = "" THEN "0" ELSE frac)))

        \* the days of month m of year y
        DaysInMonth(y, m) ==
            IF m = 2
            THEN IF y % 4 = 0 /\ (y % 100 # 0 \/ y % 400 = 0) THEN 29 ELSE 28
            ELSE IF m \in { 4, 6, 9, 11 } THEN 30 ELSE 31

        \* construct_yaml_timestamp for a date: datetime.date(year, month, day)
        construct_yaml_timestamp(s) ==
            LET y == ToNumber(SubSeq(s, 1, 4), 10)
                m == ToNumber(SubSeq(s, 6, 7), 10)
                d == ToNumber(SubSeq(s, 9, 10), 10)
            IN  IF y < 1 \/ m < 1 \/ m > 12 \/ d < 1 \/ d > DaysInMonth(y, m)
                THEN ConstructorFails("ValueError")
                ELSE Constructed(PyDate(s))
    IN
        IF ~plain THEN Constructed(Str(scalar))
        ELSE IF IsNull(scalar) THEN Constructed(None)
        ELSE IF IsBool(scalar) THEN Constructed(PyBool(lower(scalar) \in { "yes", "true", "on" }))
        ELSE IF IsInt(scalar) THEN construct_yaml_int(scalar)
        ELSE IF IsFloat(scalar) THEN construct_yaml_float(scalar)
        ELSE IF IsOtherFloat(scalar) \/ IsOtherTimestamp(scalar) THEN ConstructorFails("UnmodelledYAML")
        ELSE IF IsDate(scalar) THEN construct_yaml_timestamp(scalar)
        ELSE IF scalar = "<<" THEN ConstructorFails("UnmodelledYAML")
        ELSE IF scalar = "=" THEN ConstructorFails("YAMLError")
        ELSE Constructed(Str(scalar))

RECURSIVE construct_object(_)
RECURSIVE construct_sequence(_, _, _)
RECURSIVE construct_mapping(_, _, _)

construct_object(node) ==
    CASE node.kind = "scalar" -> construct_scalar(node.value, node.plain)
      [] node.kind = "sequence" -> construct_sequence(node.items, 1, << >>)
      [] node.kind = "mapping" -> construct_mapping(node.pairs, 1, << >>)

construct_sequence(nodes, i, l) ==
    IF i > Len(nodes) THEN Constructed(PyList(l))
    ELSE LET item == construct_object(nodes[i]) IN
         IF item.error # "" THEN item
         ELSE construct_sequence(nodes, i + 1, Append(l, item.value))

\* a list or a dict is no key: "found unhashable key"; flatten_mapping
\* makes the plain key "=" a str
construct_mapping(pairs, i, items) ==
    IF i > Len(pairs) THEN Constructed(PyDict(items))
    ELSE LET key_node == pairs[i][1]
             key == IF key_node.kind = "scalar" /\ key_node.plain /\ key_node.value = "="
                    THEN Constructed(Str("="))
                    ELSE construct_object(key_node)
         IN
         IF key.error # "" THEN key
         ELSE IF key.value.t \in { "list", "dict" } THEN ConstructorFails("YAMLError")
         ELSE LET value == construct_object(pairs[i][2]) IN
              IF value.error # "" THEN value
              ELSE construct_mapping(pairs, i + 1, dict_set(items, key.value, value.value))

\* yaml.safe_load(stream): the value of the one document, None for none
yaml_safe_load(yaml_block) ==
    LET IsPlain(node, scalar) ==
            node.kind = "scalar" /\ node.plain /\ node.value = scalar

        \* the nodes below a collection, in the order its generator constructs
        \* them
        RECURSIVE Children(_)
        Children(node) ==
            IF node.kind = "sequence"
            THEN [j \in DOMAIN node.items |-> [node |-> node.items[j], key |-> FALSE]]
            ELSE IF Len(node.pairs) = 0 THEN << >>
            ELSE << [node |-> node.pairs[1][1], key |-> TRUE],
                    [node |-> node.pairs[1][Len(node.pairs[1])], key |-> FALSE] >>
                    \o Children([node EXCEPT !.pairs = Tail(@)])

        \* construct_document: the generator of a collection constructs the
        \* scalars below it and puts the collections below it off, to the end
        \* of the generators waiting; the first error met, "" for none
        RECURSIVE Generator(_, _, _)
        RECURSIVE NextGenerator(_, _)
        Generator(state_generators, children, i) ==
            IF i > Len(children)
            THEN IF Len(state_generators) = 0 THEN ""
                 ELSE NextGenerator(Tail(state_generators), Head(state_generators))
            ELSE LET child == children[i]
                     constructed(error) ==
                         IF error # "" THEN error
                         ELSE Generator(state_generators, children, i + 1)
                 IN  IF child.node.kind # "scalar"
                     THEN IF child.key THEN "YAMLError"
                          ELSE Generator(Append(state_generators, child.node), children, i + 1)
                     ELSE IF child.key /\ IsPlain(child.node, "=")
                          THEN Generator(state_generators, children, i + 1)
                     ELSE constructed(construct_scalar(child.node.value, child.node.plain).error)
        NextGenerator(state_generators, node) ==
            IF node.kind = "mapping"
                /\ \E j \in DOMAIN node.pairs : IsPlain(node.pairs[j][1], "<<")
            THEN "UnmodelledYAML"
            ELSE Generator(state_generators, Children(node), 1)

        construct_document(node) ==
            LET data(error) ==
                    IF error # "" THEN ConstructorFails(error) ELSE construct_object(node)
            IN  IF node.kind = "scalar" THEN construct_object(node)
                ELSE data(NextGenerator(<< >>, node))

        get_single_data(r) ==
            IF ~r.ok THEN ConstructorFails("YAMLError")
            ELSE IF r.i = 0 THEN Constructed(None)
            ELSE construct_document(r.node)
        load(S) ==
            IF S.error # "" THEN ConstructorFails(S.error)
            ELSE get_single_data(get_single_node(S.tokens))
    IN  load(scan(yaml_block))

(***************************************************************************)
(* loader.py: load_rflow_file, on the text of the file                     *)
(***************************************************************************)
\* lines.index("---", 1): 0-based index of the first line at or after index
\* 1 that equals "---", or -1 where list.index raises ValueError
RECURSIVE ListIndex(_, _, _)
ListIndex(ls, value, from) ==
    IF from >= Len(ls) THEN -1
    ELSE IF ls[from + 1] = value THEN from
    ELSE ListIndex(ls, value, from + 1)

Raise(error) == [ok |-> FALSE, error |-> error]

load_rflow_file(path, text) ==
    LET ls == splitlines(text) IN
    IF Len(ls) = 0 \/ strip(ls[1], Whitespace) # "---"
    THEN Raise("ValueError: Invalid .rflow file (missing opening ---): " \o path)
    ELSE LET end_index == ListIndex(ls, "---", 1) IN
         IF end_index = -1
         THEN Raise("ValueError: Invalid .rflow file (missing close ---): " \o path)
         ELSE LET yaml_block == join(SubSeq(ls, 2, end_index))
                  body_block == lstrip(join(SubSeq(ls, end_index + 2, Len(ls))), {"\n"})
                  RFlowRawDocument(loaded) ==
                      IF loaded.error # "" THEN Raise(loaded.error)
                      ELSE [ok |-> TRUE,
                            metadata |-> IF truthy(loaded.value) THEN loaded.value
                                         ELSE PyDict(<< >>),
                            body |-> body_block,
                            path |-> path]
              IN  RFlowRawDocument(yaml_safe_load(yaml_block))

(***************************************************************************)
(* parser.py: parse_rflow as a function of the raw document, the loop of   *)
(* the state machine below run to its end                                  *)
(***************************************************************************)
\* flush_plain_block: the blocks and the buffer after the flush
flush_plain_block(bs, plain) ==
    IF plain # << >>
    THEN LET content == strip(join(plain), {"\n"}) IN
         [blocks |-> IF Len(content) # 0 THEN Append(bs, MarkdownBlock(content)) ELSE bs,
          current_plain |-> << >>]
    ELSE [blocks |-> bs, current_plain |-> plain]

SubParser(marker, ls, start_index) ==
    CASE marker = ":::summary" -> _parse_summary_block(ls, start_index)
      [] marker = ":::figure" -> _parse_figure_block(ls, start_index)
      [] marker = ":::log" -> _parse_log_block(ls, start_index)
      [] marker = ":::code" -> _parse_code_block(ls, start_index)

RecognisedMarkers == { ":::summary", ":::figure", ":::log", ":::code" }

RECURSIVE ParseLoop(_, _, _, _)
ParseLoop(ls, i, bs, plain) ==
    IF i < Len(ls)
    THEN LET l == ls[i + 1]
             st == strip(l, Whitespace)
         IN  IF ~startswith(st, ":::")
             THEN ParseLoop(ls, i + 1, bs, Append(plain, l))
             ELSE LET f == flush_plain_block(bs, plain) IN
                  IF st \in RecognisedMarkers
                  THEN LET r == SubParser(st, ls, i + 1) IN
                       ParseLoop(ls, r.next_index, Append(f.blocks, r.block),
                                 f.current_plain)
                  ELSE ParseLoop(ls, i + 1, f.blocks, Append(f.current_plain, l))
    ELSE flush_plain_block(bs, plain).blocks

\* RFlowDocument(metadata, blocks, path)
parse_rflow(rawdoc) ==
    [metadata |-> rawdoc.metadata,
     blocks |-> ParseLoop(splitlines(rawdoc.body), 0, << >>, << >>),
     path |-> rawdoc.path]

(***************************************************************************)
(* Ordering of strings (by code point) and sorting                         *)
(***************************************************************************)
\* a < b for Python strings
RECURSIVE StrLess(_, _)
StrLess(a, b) ==
    IF Len(b) = 0 THEN FALSE
    ELSE IF Len(a) = 0 THEN TRUE
    ELSE IF Char(a, 1) = Char(b, 1)
         THEN StrLess(SubSeq(a, 2, Len(a)), SubSeq(b, 2, Len(b)))
    ELSE IF Char(b, 1) \notin DOMAIN ord THEN Char(a, 1) \in DOMAIN ord
    ELSE Char(a, 1) \in DOMAIN ord /\ ord[Char(a, 1)] < ord[Char(b, 1)]

\* sorted(seq) for strings
RECURSIVE sorted(_)
sorted(seq) ==
    LET RECURSIVE insert(_, _)
        insert(done, x) ==
            IF Len(done) = 0 THEN << x >>
            ELSE IF StrLess(x, done[1]) THEN << x >> \o done
            ELSE << done[1] >> \o insert(Tail(done), x)
    IN  IF Len(seq) = 0 THEN << >>
        ELSE insert(sorted(SubSeq(seq, 1, Len(seq) - 1)), seq[Len(seq)])

\* every ordering of a finite set, as sequences
Orderings(S) ==
    { q \in [1..Cardinality(S) -> S] : \A i, j \in 1..Cardinality(S) : i # j => q[i] # q[j] }

(***************************************************************************)
(* scaffold.py                                                             *)
(***************************************************************************)
\* re.sub(r"\s+", "-", value)
RECURSIVE SubWhitespaceRuns(_)
SubWhitespaceRuns(s) ==
    IF Len(s) = 0 THEN s
    ELSE IF Char(s, 1) \in Whitespace
         THEN "-" \o SubWhitespaceRuns(lstrip(s, Whitespace))
    ELSE Char(s, 1) \o SubWhitespaceRuns(SubSeq(s, 2, Len(s)))

\* re.sub(r"[^a-z0-9\-]", "", value)
RECURSIVE SubNonSlugChars(_)
SubNonSlugChars(s) ==
    LET SlugChars == LowerCase \o Digits \o "-" IN
    IF Len(s) = 0 THEN s
    ELSE (IF find(SlugChars, Char(s, 1), 1) # 0 THEN Char(s, 1) ELSE "")
            \o SubNonSlugChars(SubSeq(s, 2, Len(s)))

\* a faulty variant: runs of hyphens are left as they are
SubHyphenRuns_keep(s) == s

\* re.sub(r"-{2,}", "-", value)
RECURSIVE SubHyphenRuns(_)
SubHyphenRuns(s) ==
    IF Len(s) = 0 THEN s
    ELSE IF Char(s, 1) = "-"
         THEN "-" \o SubHyphenRuns(lstrip(s, {"-"}))
    ELSE Char(s, 1) \o SubHyphenRuns(SubSeq(s, 2, Len(s)))

slugify(value) ==
    LET v1 == lower(strip(value, Whitespace))
        v2 == SubWhitespaceRuns(v1)
        v3 == SubNonSlugChars(v2)
        v4 == SubHyphenRuns(v3)
        v5 == strip(v4, {"-"})
    IN  IF Len(v5) > 0 THEN v5 ELSE "untitled"

\* Path.exists(), on the paths of the files there are: a path exists as a
\* file, or as a directory that a file lies below
exists(existing, path) ==
    \/ path \in existing
    \/ \E file \in existing : startswith(file, path \o "/")

\* a faulty variant: the numbered candidate is returned without a second look
UniqueLoop_once(existing, base_dir, slug, candidate, counter) ==
    IF exists(existing, candidate)
    THEN base_dir \o "/" \o slug \o "-" \o Decimal(counter) \o ".rflow"
    ELSE candidate

\* the while loop of _ensure_unique_path, on the paths of the files of the
\* workspace
RECURSIVE UniqueLoop(_, _, _, _, _)
UniqueLoop(existing, base_dir, slug, candidate, counter) ==
    IF exists(existing, candidate)
    THEN UniqueLoop(existing, base_dir, slug,
                    base_dir \o "/" \o slug \o "-" \o Decimal(counter) \o ".rflow",
                    counter + 1)
    ELSE candidate

_ensure_unique_path(existing, base_dir, slug) ==
    UniqueLoop(existing, base_dir, slug, base_dir \o "/" \o slug \o ".rflow", 2)

\* the text create_note writes
NoteContent(title, today, slug) ==
    "---\n"
    \o "title: " \o title \o "\n"
    \o "type: note\n"
    \o "tags: []\n"
    \o "date: " \o today \o "\n"
    \o "summary: \"\"\n"
    \o "slug: " \o slug \o "\n"
    \o "---\n"
    \o "\n"
    \o "# " \o title \o "\n"
    \o "\n"
    \o "Write your note here.\n"

\* the text create_experiment writes
ExperimentContent(title, today, slug) ==
    "---\n"
    \o "title: " \o title \o "\n"
    \o "type: experiment\n"
    \o "tags: []\n"
    \o "date: " \o today \o "\n"
    \o "summary: \"\"\n"
    \o "slug: " \o slug \o "\n"
    \o "---\n"
    \o "\n"
    \o "# " \o title \o "\n"
    \o "\n"
    \o ":::summary\n"
    \o "Short summary of this experiment.\n"
    \o ":::\n"
    \o "\n"
    \o "## Objective\n"
    \o "\n"
    \o "Describe the main question or hypothesis here.\n"
    \o "\n"
    \o "## Setup\n"
    \o "\n"
    \o "- Data:\n"
    \o "- Model:\n"
    \o "- Metrics:\n"
    \o "\n"
    \o "## Results\n"
    \o "\n"
    \o "Summarise key findings here.\n"
    \o "\n"
    \o "## Notes\n"
    \o "\n"
    \o "Additional observations, caveats, or follow-up ideas.\n"

(***************************************************************************)
(* site.py: discovery.  A workspace is a function from the relative path   *)
(* of each file to its text; a directory exists when a file lies below it, *)
(* so that a workspace holds no empty directory.                           *)
(***************************************************************************)
endswith(s, suffix) ==
    Len(s) >= Len(suffix) /\ SubSeq(s, Len(s) - Len(suffix) + 1, Len(s)) = suffix

\* Path.stem: the name, the final part of the path, without its suffix
stem(path) ==
    LET \* 1-based position of the last occurrence of character c in s, 0 if none
        RECURSIVE rfind(_, _, _)
        rfind(s, c, from) ==
            IF from < 1 THEN 0
            ELSE IF Char(s, from) = c THEN from
            ELSE rfind(s, c, from - 1)
        name == SubSeq(path, rfind(path, "/", Len(path)) + 1, Len(path))
        k == rfind(name, ".", Len(name))
    IN  IF k > 1 THEN SubSeq(name, 1, k - 1) ELSE name

\* PurePath(path).parts: the segments between two "/", without the empty
\* ones and the "." ones, and the root first for an absolute path: "//"
\* for exactly two leading slashes, "/" otherwise
parts(path) ==
    LET RECURSIVE segments(_)
        segments(rest) ==
            LET k == find(rest, "/", 1)
                segment == IF k = 0 THEN rest ELSE SubSeq(rest, 1, k - 1)
                others == IF k = 0 THEN << >>
                          ELSE segments(SubSeq(rest, k + 1, Len(rest)))
            IN  IF segment \in { "", "." } THEN others ELSE << segment >> \o others
    IN  (IF startswith(path, "//") /\ ~startswith(path, "///") THEN << "//" >>
         ELSE IF startswith(path, "/") THEN << "/" >>
         ELSE << >>) \o segments(path)

\* the paths dir_path.glob("*.rflow") yields, in no particular order: the
\* entries of the directory, files and directories alike, whose name ends
\* in ".rflow"
glob(workspace, subdir) ==
    LET \* the entry of the directory that a path below it is, or lies in
        entry(p) ==
            LET k == find(p, "/", Len(subdir) + 2) IN
            IF k = 0 THEN p ELSE SubSeq(p, 1, k - 1)
    IN  { q \in { entry(p) : p \in { f \in DOMAIN workspace :
                                          startswith(f, subdir \o "/") } } :
            endswith(q, ".rflow") }

\* a faulty variant: the listing is used in the order the directory gives it
sorted_glob_unsorted(listing) == listing

\* sorted(dir_path.glob("*.rflow")), on a listing of the directory: two
\* paths compare as the lists of their parts do
RECURSIVE sorted_glob(_)
sorted_glob(listing) ==
    LET RECURSIVE PartsLess(_, _)
        PartsLess(a, b) ==
            IF Len(b) = 0 THEN FALSE
            ELSE IF Len(a) = 0 THEN TRUE
            ELSE IF a[1] = b[1] THEN PartsLess(Tail(a), Tail(b))
            ELSE StrLess(a[1], b[1])
        RECURSIVE insert(_, _)
        insert(done, x) ==
            IF Len(done) = 0 THEN << x >>
            ELSE IF PartsLess(parts(x), parts(done[1])) THEN << x >> \o done
            ELSE << done[1] >> \o insert(Tail(done), x)
    IN  IF Len(listing) = 0 THEN << >>
        ELSE insert(sorted_glob(SubSeq(listing, 1, Len(listing) - 1)),
                    listing[Len(listing)])

SiteDocument(kind, slug, source_path, document) ==
    [kind |-> kind, slug |-> slug, source_path |-> source_path, document |-> document]

\* x or default
Or(x, default) == IF truthy(x) THEN x ELSE default

\* the body of the inner for loop: load, parse, resolve kind and slug
ResolveDocument(kind, path, text) ==
    LET \* type(v).__name__
        type_name(v) == IF v.t = "date" THEN "datetime.date" ELSE v.t
        resolve(doc) ==
            IF doc.metadata.t # "dict"
            THEN Raise("AttributeError: '" \o type_name(doc.metadata)
                          \o "' object has no attribute 'get'")
            ELSE LET meta == doc.metadata
                     lowered == lower(str(Or(dict_get(meta, "type"), Str(kind))))
                     meta_type == IF lowered \notin {"note", "experiment"} THEN kind
                                  ELSE lowered
                     slug_value == dict_get(meta, "slug")
                     slug == IF truthy(slug_value) THEN str(slug_value) ELSE stem(path)
                 IN  [ok |-> TRUE, site_doc |-> SiteDocument(meta_type, slug, path, doc)]
        parse(rawdoc) ==
            IF ~rawdoc.ok THEN Raise(rawdoc.error) ELSE resolve(parse_rflow(rawdoc))
    IN  parse(load_rflow_file(path, text))

\* for kind, subdir in (("note", "notes"), ("experiment", "experiments"))
Subdirs ==
    << [kind |-> "note", subdir |-> "notes"],
       [kind |-> "experiment", subdir |-> "experiments"] >>

(***************************************************************************)
(* site.py: the index builder                                              *)
(***************************************************************************)
Section(kind) == IF kind = "note" THEN "notes" ELSE "experiments"

_document_to_index_item(site_doc) ==
    LET meta == site_doc.document.metadata
        title == str(Or(dict_get(meta, "title"), Str(site_doc.slug)))
        tags_value == Or(dict_get(meta, "tags"), PyList(<< >>))
        tags == IF tags_value.t = "str" THEN << tags_value.s >>
                ELSE IF tags_value.t = "list"
                     THEN [i \in 1..Len(tags_value.l) |-> str(tags_value.l[i])]
                ELSE << >>
    IN  [title |-> title,
         kind |-> site_doc.kind,
         slug |-> site_doc.slug,
         url |-> "/" \o Section(site_doc.kind) \o "/" \o site_doc.slug \o "/",
         date |-> dict_get(meta, "date"),
         summary |-> dict_get(meta, "summary"),
         tags |-> tags]

\* [_document_to_index_item(doc) for doc in documents if doc.kind == kind]
RECURSIVE ItemsOfKind(_, _)
ItemsOfKind(documents, kind) ==
    IF Len(documents) = 0 THEN << >>
    ELSE (IF documents[1].kind = kind
          THEN << _document_to_index_item(documents[1]) >> ELSE << >>)
            \o ItemsOfKind(Tail(documents), kind)

\* a faulty variant: an absent date is stringified like any other value
sort_key_none(item) == str(item.date)

sort_key(item) == IF item.date.t # "none" THEN str(item.date) ELSE ""

\* list.sort(key=sort_key, reverse=True): descending and stable
RECURSIVE sort_reverse(_)
sort_reverse(items) ==
    LET RECURSIVE insert(_, _)
        insert(done, x) ==
            IF Len(done) = 0 THEN << x >>
            ELSE IF StrLess(sort_key(done[1]), sort_key(x)) THEN << x >> \o done
            ELSE << done[1] >> \o insert(Tail(done), x)
    IN  IF Len(items) = 0 THEN << >>
        ELSE insert(sort_reverse(SubSeq(items, 1, Len(items) - 1)), items[Len(items)])

\* for tag in item["tags"]: tag_map[tag].append(item).  The tag map is the
\* sequence of its entries in the order of their insertion, the order in
\* which tag_map.items() yields them.
RECURSIVE TagLoop(_, _, _)
TagLoop(tag_map, item, j) ==
    IF j > Len(item.tags) THEN tag_map
    ELSE LET tag == item.tags[j]
             appended ==
                 IF \E i \in DOMAIN tag_map : tag_map[i].tag = tag
                 THEN [i \in DOMAIN tag_map |->
                         IF tag_map[i].tag = tag
                         THEN [tag_map[i] EXCEPT !.items = Append(@, item)]
                         ELSE tag_map[i]]
                 ELSE Append(tag_map, [tag |-> tag, items |-> << item >>])
         IN  TagLoop(appended, item, j + 1)

RECURSIVE ItemLoop(_, _, _)
ItemLoop(tag_map, items, i) ==
    IF i > Len(items) THEN tag_map
    ELSE ItemLoop(TagLoop(tag_map, items[i], 1), items, i + 1)

\* a faulty variant: the items of both kinds are merged by date
build_tag_map_by_date(note_items, experiment_items) ==
    ItemLoop(<< >>, sort_reverse(note_items \o experiment_items), 1)

build_tag_map(note_items, experiment_items) ==
    ItemLoop(<< >>, note_items \o experiment_items, 1)

(***************************************************************************)
(* The files of the output tree.  The renderer and the templates are       *)
(* outside the repository's Python code: a page is the template, named     *)
(* within its environment, with the values handed to it, so that equal     *)
(* pages are pages rendered from equal values.  Any other file is its      *)
(* bytes.                                                                  *)
(***************************************************************************)
Bytes(text) == [bytes |-> text]

\* render.py: the Jinja environment over the project's templates directory
_ENV == [loader |-> "templates"]

\* env.get_template(name)
get_template(environment, template) ==
    [environment |-> environment, name |-> template]

render_document(doc) == [template |-> get_template(_ENV, "document.html"), doc |-> doc]

\* site.py imports get_template_environment from render.py and
\* build_indexes calls it first; render.py defines no such name.  It is
\* taken to return the environment render.py creates.
get_template_environment == _ENV

HomePage(environment, note_items, experiment_items, tag_map) ==
    LET Min(a, b) == IF a < b THEN a ELSE b
        \* sorted(tag_map.keys())
        keys == { tag_map[i].tag : i \in DOMAIN tag_map }
        SortedKeys == sorted(CHOOSE q \in Orderings(keys) : TRUE)
    IN  [template |-> get_template(environment, "home.html"),
         site_title |-> "ResearchFlow",
         notes_count |-> Len(note_items),
         experiments_count |-> Len(experiment_items),
         recent_notes |-> SubSeq(note_items, 1, Min(5, Len(note_items))),
         recent_experiments |->
             SubSeq(experiment_items, 1, Min(5, Len(experiment_items))),
         tags |-> SortedKeys]

NotesIndexPage(environment, items) ==
    [template |-> get_template(environment, "notes_index.html"), items |-> items]
ExperimentsIndexPage(environment, items) ==
    [template |-> get_template(environment, "experiments_index.html"), items |-> items]
TagPage(environment, tag, items) ==
    [template |-> get_template(environment, "tag_index.html"), tag |-> tag, items |-> items]

(***************************************************************************)
(* pathlib and the file system below the output root.  A path is the       *)
(* string of its parts joined by "/", taken from the output root: "" is    *)
(* the root, ".." the directory that holds it, and a path that starts with *)
(* "/" is absolute.  The root is its files (path -> content) and its       *)
(* directories, every directory that holds a file or a directory among     *)
(* them.  The directories above the root and "/" exist; what else lies     *)
(* outside the root is part of the tree under its path, and the workspace  *)
(* is taken to lie apart from all of it.  No path is a symbolic link and   *)
(* no name is too long for the file system.                                *)
(***************************************************************************)
\* path / key: an absolute key replaces the path
truediv(path, key) == IF startswith(key, "/") THEN key ELSE path \o "/" \o key

\* the path the parts lead to when every directory on the way exists, each
\* ".." leading to the directory that holds the one reached; the root "//"
\* leads where "/" leads
normpath(path_parts) ==
    LET above(at) ==
            IF at = << "/" >> THEN at
            ELSE IF Len(at) = 0 \/ at[Len(at)] = ".." THEN Append(at, "..")
            ELSE SubSeq(at, 1, Len(at) - 1)
        RECURSIVE walk(_, _)
        walk(at, i) ==
            IF i > Len(path_parts) THEN at
            ELSE IF path_parts[i] = ".." THEN walk(above(at), i + 1)
            ELSE IF path_parts[i] = "//" THEN walk(<< "/" >>, i + 1)
            ELSE walk(Append(at, path_parts[i]), i + 1)
        RECURSIVE joined(_)
        joined(at) ==
            IF Len(at) = 0 THEN ""
            ELSE IF at[1] = "/" THEN "/" \o joined(Tail(at))
            ELSE IF Len(at) = 1 THEN at[1]
            ELSE at[1] \o "/" \o joined(Tail(at))
    IN  joined(walk(<< >>, 1))

\* what the file system finds at the end of the parts: the error of a part
\* on the way that is no directory, or the path reached and what lies there
lookup(root, path_parts) ==
    LET kind(path) ==
            IF path \in DOMAIN root.files THEN "file"
            ELSE IF \/ path \in root.dirs \cup { "", "..", "/" }
                    \/ endswith(path, "/..")
                 THEN "dir"
            ELSE "none"
        on_the_way(k) == normpath(SubSeq(path_parts, 1, k))
        stops == { k \in 0..(Len(path_parts) - 1) : kind(on_the_way(k)) # "dir" }
        stop == CHOOSE k \in stops : \A other \in stops : k <= other
        found(path) == [error |-> "", path |-> path, kind |-> kind(path)]
    IN  IF stops = {} THEN found(normpath(path_parts))
        ELSE [error |-> IF kind(on_the_way(stop)) = "file" THEN "NotADirectoryError"
                        ELSE "FileNotFoundError",
              path |-> "", kind |-> "none"]

\* Path.mkdir(parents=True, exist_ok=True): the root after the call and
\* the error raised, "" for none
RECURSIVE mkdir(_, _)
mkdir(root, path_parts) ==
    LET is_dir(at) == at.error = "" /\ at.kind = "dir"
        \* os.mkdir
        os_mkdir(in, at) ==
            IF at.error # "" THEN [root |-> in, error |-> at.error]
            ELSE IF at.kind # "none" THEN [root |-> in, error |-> "FileExistsError"]
            ELSE [root |-> [in EXCEPT !.dirs = @ \cup { at.path }], error |-> ""]
        \* except OSError: the error passes unless the path is a directory
        unless_dir(made, at) ==
            IF made.error # "" /\ is_dir(at) THEN [made EXCEPT !.error = ""] ELSE made
        \* the second try, once the parent is made
        again(parent) ==
            IF parent.error # "" THEN parent
            ELSE LET retry(made) ==
                         IF made.error = "FileNotFoundError" THEN made
                         ELSE unless_dir(made, lookup(parent.root, path_parts))
                 IN  retry(os_mkdir(parent.root, lookup(parent.root, path_parts)))
        first(made) ==
            IF made.error = "FileNotFoundError" /\ Len(path_parts) > 0
            THEN again(mkdir(root, SubSeq(path_parts, 1, Len(path_parts) - 1)))
            ELSE unless_dir(made, lookup(root, path_parts))
    IN  first(os_mkdir(root, lookup(root, path_parts)))

\* Path.write_text(data): the root after the call and the error raised
write_text(root, path_parts, data) ==
    LET opened(at) ==
            IF at.error # "" THEN [root |-> root, error |-> at.error]
            ELSE IF at.kind = "dir" THEN [root |-> root, error |-> "IsADirectoryError"]
            ELSE [root |-> [root EXCEPT !.files = put(@, at.path, data)], error |-> ""]
    IN  opened(lookup(root, path_parts))

\* output_dir = build_root / section / site_doc.slug
output_dir(site_doc) == parts(truediv(Section(site_doc.kind), site_doc.slug))

\* the path of a document's page below the build root
PagePath(site_doc) == normpath(Append(output_dir(site_doc), "index.html"))

\* the body of the rendering loop: the root after it and the error raised
WritePage(root, site_doc) ==
    LET made(dir) ==
            IF dir.error # "" THEN dir
            ELSE write_text(dir.root, Append(output_dir(site_doc), "index.html"),
                            render_document(site_doc.document))
    IN  made(mkdir(root, output_dir(site_doc)))

\* the root after build_indexes has written its pages, up to the first
\* error, and that error
WriteIndexFiles(root, environment, note_items, experiment_items, tag_map) ==
    LET \* path.parent.mkdir(parents=True, exist_ok=True); path.write_text(html)
        page(in, dir, html) ==
            LET made(r) ==
                    IF r.error # "" THEN r
                    ELSE write_text(r.root, Append(dir, "index.html"), html)
            IN  made(mkdir(in, dir))
        \* for tag, items in tag_map.items()
        RECURSIVE tag_pages(_, _)
        tag_pages(r, i) ==
            IF r.error # "" \/ i > Len(tag_map) THEN r
            ELSE tag_pages(page(r.root, parts(truediv("tags", tag_map[i].tag)),
                                TagPage(environment, tag_map[i].tag, tag_map[i].items)),
                           i + 1)
        experiments_index(r) ==
            IF r.error # "" THEN r
            ELSE tag_pages(page(r.root, << "experiments" >>,
                                ExperimentsIndexPage(environment, experiment_items)), 1)
        notes_index(r) ==
            IF r.error # "" THEN r
            ELSE experiments_index(page(r.root, << "notes" >>,
                                        NotesIndexPage(environment, note_items)))
    IN  notes_index(write_text(root, << "index.html" >>,
                               HomePage(environment, note_items, experiment_items,
                                        tag_map)))

\* if assets_src.is_dir(): shutil.copytree(workspace/assets,
\* build_root/assets, dirs_exist_ok=True).  A directory is made unless a
\* file has its path, which leaves out all that lies in it; copy2 puts a
\* file into the directory that has its path, under its own name; the
\* copies that fail are raised as one shutil.Error once the others are made.
CopyTree(root, workspace) ==
    LET assets == { p \in DOMAIN workspace : startswith(p, "assets/") }
        at(p, k) == lookup(root, SubSeq(parts(p), 1, k))
        is(r, kind) == r.error = "" /\ r.kind = kind
        \* the directories on the way to p, up to the k-th, can be made
        open(p, k) == \A j \in 1..k : ~is(at(p, j), "file")
        n(p) == Len(parts(p))
        inside(p) == parts(p) \o << parts(p)[n(p)] >>
        target(p) == IF is(at(p, n(p)), "dir") THEN normpath(inside(p)) ELSE p
        copied == { p \in assets :
                      /\ open(p, n(p) - 1)
                      /\ ~(is(at(p, n(p)), "dir") /\ is(lookup(root, inside(p)), "dir")) }
        source(q) == CHOOSE p \in copied : target(p) = q
        made == UNION { { normpath(SubSeq(parts(p), 1, k)) :
                            k \in { j \in 1..(n(p) - 1) : open(p, j) } } : p \in assets }
    IN  IF assets = {} THEN [root |-> root, error |-> ""]
        ELSE IF is(lookup(root, << "assets" >>), "file")
             THEN [root |-> root, error |-> "FileExistsError"]
        ELSE [root |->
                [root EXCEPT
                   !.dirs = @ \cup made,
                   !.files = [q \in DOMAIN @ \cup { target(p) : p \in copied } |->
                                IF \E p \in copied : target(p) = q
                                THEN Bytes(workspace[source(q)])
                                ELSE @[q]]],
              error |-> IF copied = assets THEN "" ELSE "shutil.Error"]

(***************************************************************************)
(* State                                                                   *)
(***************************************************************************)
VARIABLES
    \* parse_rflow: its argument and its locals
    body,            \* raw.body
    lines,           \* raw.body.splitlines()
    index,           \* 0-based index of the next line to scan
    blocks,          \* the blocks emitted so far
    current_plain,   \* the pending buffer of plain lines
    parse_pc,        \* "scan" inside the while loop, "done" after the return
    \* load_rflow_file: the text read from the file and the outcome
    file_text,       \* path.read_text()
    raw,             \* the RFlowRawDocument returned, or the error raised
    load_pc,         \* "call" before the call, "returned" or "raised" after it
    \* the file system
    workspace,       \* the files below the workspace root: path -> text
    build_root,      \* the output root: whether it exists, its files and
                     \* its directories
    \* build_site and build_indexes: position and locals
    build_pc,        \* "idle", "discover", "load", "render", "indexes",
                     \* "pages", "done" (returned) or "failed" (an error
                     \* propagated out of build_site)
    build_error,     \* the error that propagated out of the build_site call,
                     \* "" while there is none
    dir_index,       \* discover_documents: directories already scanned
    paths,           \* discover_documents: sorted paths still to load
    documents,       \* the list discover_documents builds and returns
    rendered,        \* number of documents whose page has been written
    env,             \* build_indexes: the template environment
    note_items,
    experiment_items,
    tag_map,
    \* bookkeeping
    builds,          \* number of build_site calls so far
    last_run,        \* the output root as the previous build_site call left
                     \* it, while the workspace is unchanged since that call
    created,         \* the paths create_note / create_experiment returned
    \* slugify called on its own: the argument and the value returned
    slugify_arg,     \* the title passed
    slugify_ret      \* None before the return

parse_vars == << body, lines, index, blocks, current_plain, parse_pc >>
load_vars == << file_text, raw, load_pc >>
build_locals ==
    << dir_index, paths, documents, rendered, env, note_items, experiment_items, tag_map >>
site_vars ==
    << workspace, build_root, build_pc, build_error, build_locals, builds, last_run,
       created >>

slug_vars == << slugify_arg, slugify_ret >>

vars == << parse_vars, load_vars, site_vars, slug_vars >>

\* the components that are not in use
ParseIdle ==
    /\ body = ""
    /\ lines = << >>
    /\ index = 0
    /\ blocks = << >>
    /\ current_plain = << >>
    /\ parse_pc = "idle"

LoadIdle ==
    /\ file_text = ""
    /\ raw = None
    /\ load_pc = "idle"

SlugIdle ==
    /\ slugify_arg = ""
    /\ slugify_ret = None

NoFiles == [p \in {} |-> ""]
\* an output root that does not exist
NoRoot == [exists |-> FALSE, files |-> NoFiles, dirs |-> {}]
NoLocals ==
    /\ dir_index = 0
    /\ paths = << >>
    /\ documents = << >>
    /\ rendered = 0
    /\ env = None
    /\ note_items = << >>
    /\ experiment_items = << >>
    /\ tag_map = << >>

SiteIdle ==
    /\ workspace = NoFiles
    /\ build_root = NoRoot
    /\ build_pc = "off"
    /\ build_error = ""
    /\ NoLocals
    /\ builds = 0
    /\ last_run = [valid |-> FALSE, build_root |-> NoRoot]
    /\ created = << >>

(***************************************************************************)
(* parser.py: parse_rflow, one action per iteration of its while loop      *)
(***************************************************************************)
\* the lines bodies are made of
LinePool ==
    { "", "  ", "text", ":::", " ::: ", ":::unknown",
      ":::summary", ":::figure", ":::log", " :::code", "path: p",
      \* U+001F, which strip() removes, before the marker
      ":::log" }

Bodies ==
    { join(ls) : ls \in UNION { [1..n -> LinePool] : n \in 0..MaxLines } }

line == lines[index + 1]
stripped == strip(line, Whitespace)

InLoop == parse_pc = "scan" /\ index < Len(lines)

InitParse ==
    /\ body \in Bodies
    /\ lines = splitlines(body)
    /\ index = 0
    /\ blocks = << >>
    /\ current_plain = << >>
    /\ parse_pc = "scan"
    /\ LoadIdle
    /\ SiteIdle
    /\ SlugIdle

\* not a block start: accumulate as plain markdown
PlainLine ==
    /\ InLoop
    /\ ~startswith(stripped, ":::")
    /\ current_plain' = Append(current_plain, line)
    /\ index' = index + 1
    /\ UNCHANGED << body, lines, blocks, parse_pc, load_vars, site_vars, slug_vars >>

\* a recognised marker: flush, then hand over to the sub-parser
BlockStart(marker, r) ==
    /\ InLoop
    /\ stripped = marker
    /\ LET f == flush_plain_block(blocks, current_plain) IN
         /\ blocks' = Append(f.blocks, r.block)
         /\ current_plain' = f.current_plain
    /\ index' = r.next_index
    /\ UNCHANGED << body, lines, parse_pc, load_vars, site_vars, slug_vars >>

SummaryStart == BlockStart(":::summary", _parse_summary_block(lines, index + 1))
FigureStart == BlockStart(":::figure", _parse_figure_block(lines, index + 1))
LogStart == BlockStart(":::log", _parse_log_block(lines, index + 1))
CodeStart == BlockStart(":::code", _parse_code_block(lines, index + 1))

\* a line starting with ":::" that is no recognised marker: the flush has
\* already run when the marker is found to be unknown
UnknownMarker ==
    /\ InLoop
    /\ startswith(stripped, ":::")
    /\ stripped \notin RecognisedMarkers
    /\ LET f == flush_plain_block(blocks, current_plain) IN
         /\ blocks' = f.blocks
         /\ current_plain' = Append(f.current_plain, line)
    /\ index' = index + 1
    /\ UNCHANGED << body, lines, parse_pc, load_vars, site_vars, slug_vars >>

\* end of input: the last flush and the return
ParseReturn ==
    /\ parse_pc = "scan"
    /\ ~(index < Len(lines))
    /\ LET f == flush_plain_block(blocks, current_plain) IN
         /\ blocks' = f.blocks
         /\ current_plain' = f.current_plain
    /\ parse_pc' = "done"
    /\ UNCHANGED << body, lines, index, load_vars, site_vars, slug_vars >>

ParseStep ==
    \/ PlainLine
    \/ SummaryStart
    \/ FigureStart
    \/ LogStart
    \/ CodeStart
    \/ UnknownMarker
    \/ ParseReturn

NextParse == ParseStep

SpecParse == InitParse /\ [][NextParse]_vars

(***************************************************************************)
(* parser.py: parse_rflow on bodies that open with a summary, log or code  *)
(* block, followed by up to MaxBlockLines lines                            *)
(***************************************************************************)
BlockOpeners == { ":::summary", ":::log", ":::code" }
BlockLinePool == { "", "  ", "print(1)", "lang: python", "caption: c", ":::" }

BlockBodies ==
    { join(<< opener >> \o ls) :
        opener \in BlockOpeners,
        ls \in UNION { [1..n -> BlockLinePool] : n \in 0..MaxBlockLines } }

InitBlocks ==
    /\ body \in BlockBodies
    /\ lines = splitlines(body)
    /\ index = 0
    /\ blocks = << >>
    /\ current_plain = << >>
    /\ parse_pc = "scan"
    /\ LoadIdle
    /\ SiteIdle
    /\ SlugIdle

NextBlocks ==
    \/ SummaryStart
    \/ LogStart
    \/ CodeStart
    \/ PlainLine
    \/ UnknownMarker
    \/ ParseReturn

SpecBlocks == InitBlocks /\ [][NextBlocks]_vars

(***************************************************************************)
(* loader.py: load_rflow_file as one action on a text                      *)
(***************************************************************************)
\* the lines file texts are made of
FileLinePool == { "---", " --- ", "title: T", "", "text" }

FileTexts ==
    { join(ls) : ls \in UNION { [1..n -> FileLinePool] : n \in 0..MaxFileLines } }

InitLoad ==
    /\ file_text \in FileTexts
    /\ raw = None
    /\ load_pc = "call"
    /\ ParseIdle
    /\ SiteIdle
    /\ SlugIdle

LoadFile ==
    /\ load_pc = "call"
    /\ raw' = load_rflow_file("doc.rflow", file_text)
    /\ load_pc' = IF raw'.ok THEN "returned" ELSE "raised"
    /\ UNCHANGED << file_text, parse_vars, site_vars, slug_vars >>

NextLoad == LoadFile

SpecLoad == InitLoad /\ [][NextLoad]_vars

(***************************************************************************)
(* site.py: build_site, one action per step of the function                *)
(***************************************************************************)
\* the document texts a workspace is made of
DocDated1 ==
    join(<< "---", "title: One", "date: 2024-01-01", "tags: [x]", "---", "", "Body one." >>)
DocDated2 ==
    join(<< "---", "date: 2024-02-01", "tags: [x, y]", "slug: s", "---",
            ":::summary", "S", ":::" >>)
DocDated2b ==
    join(<< "---", "title: Two", "date: 2024-02-01", "tags: [x]", "---", "Body two." >>)
DocUndated ==
    join(<< "---", "type: experiment", "tags: x", "slug: s", "---" >>)
DocNoClose ==
    join(<< "---", "title: Bad", "", "Body." >>)
DocNoOpen ==
    join(<< "title: Bad", "---", "Body." >>)

DocLoose ==
    join(<< "---", "type: Note", "slug: 0", "tags: [x, x]", "---", "Loose." >>)

\* front matter that is a scalar, not a mapping
DocScalar ==
    join(<< "---", "text", "---", "Body." >>)

\* the texts of the documents; the last two have a slug that names its
\* directory in a roundabout way with the tag "..", and a slug that is the
\* name of an index page
DocTexts ==
    { DocDated1, DocDated2, DocDated2b, DocUndated, DocNoClose, DocNoOpen, DocLoose,
      DocScalar,
      join(<< "---", "slug: t/../s", "tags: [..]", "---", "Dots." >>),
      join(<< "---", "slug: index.html", "---", "Index." >>) }
DocPaths == { "notes/a.rflow", "notes/b.rflow", "experiments/a.rflow" }

\* the other files of a workspace
OtherFiles ==
    { NoFiles,
      [p \in { "assets/logo.png" } |-> "PNG"],
      [p \in { "assets/logo.png", "notes/draft.txt" } |->
          IF p = "assets/logo.png" THEN "PNG" ELSE DocDated1],
      [p \in { "assets/img/logo.png", "notes/ab.rflow/data.txt" } |-> "PNG"] }

Workspaces ==
    LET Merge(f, g) ==
            [p \in DOMAIN f \cup DOMAIN g |-> IF p \in DOMAIN f THEN f[p] ELSE g[p]]
    IN  { Merge(docs, other) :
            docs \in UNION { [S -> DocTexts] : S \in SUBSET DocPaths },
            other \in OtherFiles }

\* what the output root holds before the first build
PriorRoots ==
    { NoRoot,
      [exists |-> TRUE,
       files |-> [p \in { "old.html", "notes/s/index.html" } |-> Bytes("stale")],
       dirs |-> { "notes", "notes/s", "drafts" }] }

InitBuild ==
    /\ workspace \in Workspaces
    /\ build_root \in PriorRoots
    /\ build_pc = "idle"
    /\ build_error = ""
    /\ NoLocals
    /\ builds = 0
    /\ last_run = [valid |-> FALSE, build_root |-> NoRoot]
    /\ created = << >>
    /\ ParseIdle
    /\ LoadIdle
    /\ SlugIdle

\* a faulty variant: the directory is made if absent, and never removed
ResetBuildDirKeep ==
    /\ build_pc = "idle"
    /\ builds < MaxBuilds
    /\ builds' = builds + 1
    /\ build_root' = [build_root EXCEPT !.exists = TRUE]
    /\ build_pc' = "discover"
    /\ build_error' = ""
    /\ UNCHANGED << workspace, build_locals, last_run, created, parse_vars, load_vars, slug_vars >>

\* 1. reset the build directory: rmtree if it exists, then mkdir; what
\* lies outside the root stays
ResetBuildDir ==
    /\ build_pc = "idle"
    /\ builds < MaxBuilds
    /\ builds' = builds + 1
    /\ LET outside(path) == path = ".." \/ startswith(path, "../") \/ startswith(path, "/")
       IN  build_root' =
             [exists |-> TRUE,
              files |-> [path \in { q \in DOMAIN build_root.files : outside(q) } |->
                            build_root.files[path]],
              dirs |-> { path \in build_root.dirs : outside(path) }]
    /\ build_pc' = "discover"
    /\ build_error' = ""
    /\ UNCHANGED << workspace, build_locals, last_run, created, parse_vars, load_vars, slug_vars >>

\* 2. discover_documents, outer loop: list the next directory (an absent
\* directory lists nothing) and sort the paths
EnterDirectory ==
    /\ build_pc = "discover"
    /\ \E listing \in Orderings(glob(workspace, Subdirs[dir_index + 1].subdir)) :
          paths' = sorted_glob(listing)
    /\ build_pc' = "load"
    /\ UNCHANGED << workspace, build_root, build_error, dir_index, documents, rendered,
                    note_items, experiment_items, tag_map, env, builds, last_run,
                    created, parse_vars, load_vars, slug_vars >>

\* a faulty variant of the inner loop: a file that fails to load is skipped
LoadDocumentIsolated ==
    /\ build_pc = "load"
    /\ paths # << >>
    /\ LET path == Head(paths)
           loaded(r) == documents' = IF r.ok THEN Append(documents, r.site_doc) ELSE documents
       IN  IF path \notin DOMAIN workspace
           THEN loaded(Raise("IsADirectoryError: " \o path))
           ELSE loaded(ResolveDocument(Subdirs[dir_index + 1].kind, path,
                                       workspace[path]))
    /\ paths' = Tail(paths)
    /\ UNCHANGED << workspace, build_root, build_pc, build_error, dir_index, rendered,
                    note_items, experiment_items, tag_map, env, builds, last_run,
                    created, parse_vars, load_vars, slug_vars >>

\* discover_documents, inner loop: load, parse and resolve one document; an
\* error propagates out of discover_documents and out of build_site.  The
\* path of a directory cannot be read: path.read_text raises.
LoadDocument ==
    /\ build_pc = "load"
    /\ paths # << >>
    /\ LET path == Head(paths)
           loaded(r) ==
               IF r.ok
               THEN /\ documents' = Append(documents, r.site_doc)
                    /\ paths' = Tail(paths)
                    /\ build_pc' = build_pc
                    /\ build_error' = build_error
               ELSE /\ documents' = << >>
                    /\ paths' = << >>
                    /\ build_pc' = "failed"
                    /\ build_error' = r.error
       IN  IF path \notin DOMAIN workspace
           THEN loaded(Raise("IsADirectoryError: " \o path))
           ELSE loaded(ResolveDocument(Subdirs[dir_index + 1].kind, path,
                                       workspace[path]))
    /\ UNCHANGED << workspace, build_root, dir_index, rendered, note_items,
                    experiment_items, tag_map, env, builds, last_run, created,
                    parse_vars, load_vars, slug_vars >>

\* discover_documents: the inner loop is over; next directory, or return
NextDirectory ==
    /\ build_pc = "load"
    /\ paths = << >>
    /\ dir_index' = dir_index + 1
    /\ build_pc' = IF dir_index + 1 < Len(Subdirs) THEN "discover" ELSE "render"
    /\ UNCHANGED << workspace, build_root, build_error, paths, documents, rendered,
                    note_items, experiment_items, tag_map, env, builds, last_run,
                    created, parse_vars, load_vars, slug_vars >>

\* 3. one iteration of the rendering loop; an error of mkdir or of
\* write_text propagates out of build_site
RenderDocument ==
    /\ build_pc = "render"
    /\ rendered < Len(documents)
    /\ LET written(r) ==
               /\ build_root' = r.root
               /\ rendered' = IF r.error = "" THEN rendered + 1 ELSE rendered
               /\ build_pc' = IF r.error = "" THEN build_pc ELSE "failed"
               /\ build_error' = r.error
       IN  written(WritePage(build_root, documents[rendered + 1]))
    /\ UNCHANGED << workspace, dir_index, paths, documents, note_items,
                    experiment_items, tag_map, env, builds, last_run, created,
                    parse_vars, load_vars, slug_vars >>

\* a faulty variant: the assets are copied from inside the rendering loop
CopyAssetsEarly ==
    /\ build_pc = "render"
    /\ LET copied(r) ==
               /\ build_root' = r.root
               /\ build_pc' = IF r.error = "" THEN "indexes" ELSE "failed"
               /\ build_error' = r.error
       IN  copied(CopyTree(build_root, workspace))
    /\ UNCHANGED << workspace, build_locals, builds, last_run, created,
                    parse_vars, load_vars, slug_vars >>

\* 4. after the loop: copy the assets directory if present
CopyAssets ==
    /\ build_pc = "render"
    /\ rendered = Len(documents)
    /\ LET copied(r) ==
               /\ build_root' = r.root
               /\ build_pc' = IF r.error = "" THEN "indexes" ELSE "failed"
               /\ build_error' = r.error
       IN  copied(CopyTree(build_root, workspace))
    /\ UNCHANGED << workspace, build_locals, builds, last_run, created,
                    parse_vars, load_vars, slug_vars >>

\* 5. build_indexes: the environment, the two sorted lists and the tag map
BuildIndexes ==
    /\ build_pc = "indexes"
    /\ env' = get_template_environment
    /\ note_items' = sort_reverse(ItemsOfKind(documents, "note"))
    /\ experiment_items' = sort_reverse(ItemsOfKind(documents, "experiment"))
    /\ tag_map' = build_tag_map(note_items', experiment_items')
    /\ build_pc' = "pages"
    /\ UNCHANGED << workspace, build_root, build_error, dir_index, paths, documents,
                    rendered, builds, last_run, created, parse_vars, load_vars,
                    slug_vars >>

\* build_indexes: the home page, the two index pages and the tag pages
WriteIndexPages ==
    /\ build_pc = "pages"
    /\ LET written(r) ==
               /\ build_root' = r.root
               /\ build_pc' = IF r.error = "" THEN "done" ELSE "failed"
               /\ build_error' = r.error
       IN  written(WriteIndexFiles(build_root, env, note_items, experiment_items,
                                   tag_map))
    /\ UNCHANGED << workspace, build_locals, builds, last_run, created,
                    parse_vars, load_vars, slug_vars >>

\* build_site has returned or raised: the command ends
BuildReturn ==
    /\ build_pc \in { "done", "failed" }
    /\ build_pc' = "idle"
    /\ last_run' = [valid |-> TRUE, build_root |-> build_root]
    /\ dir_index' = 0
    /\ paths' = << >>
    /\ documents' = << >>
    /\ rendered' = 0
    /\ env' = None
    /\ note_items' = << >>
    /\ experiment_items' = << >>
    /\ tag_map' = << >>
    /\ UNCHANGED << workspace, build_root, build_error, builds, created, parse_vars,
                    load_vars, slug_vars >>

BuildStep ==
    \/ ResetBuildDir
    \/ EnterDirectory
    \/ LoadDocument
    \/ NextDirectory
    \/ RenderDocument
    \/ CopyAssets
    \/ BuildIndexes
    \/ WriteIndexPages
    \/ BuildReturn

NextBuild == BuildStep

SpecBuild == InitBuild /\ [][NextBuild]_vars

(***************************************************************************)
(* scaffold.py and site.py together: the commands "new note", "new exp"    *)
(* and "build" run one after the other on one workspace                    *)
(***************************************************************************)
Titles == { "My Note", "Plan" }
Today == "2024-05-01"

\* the workspace before the first command is empty, or has a directory with
\* the name of a note
Init ==
    /\ workspace \in { NoFiles, [p \in { "notes/plan.rflow/data.txt" } |-> "1,2"] }
    /\ build_root = NoRoot
    /\ build_pc = "idle"
    /\ build_error = ""
    /\ NoLocals
    /\ builds = 0
    /\ last_run = [valid |-> FALSE, build_root |-> NoRoot]
    /\ created = << >>
    /\ ParseIdle
    /\ LoadIdle
    /\ SlugIdle

\* notes_dir.mkdir(parents=True, exist_ok=True) raises where a file has the
\* name of the directory; path.write_text(content)
Create(subdir, path, content) ==
    /\ build_pc = "idle"
    /\ subdir \notin DOMAIN workspace
    /\ Len(created) < MaxCreates
    /\ workspace' = put(workspace, path, content)
    /\ created' = Append(created, path)
    /\ last_run' = [last_run EXCEPT !.valid = FALSE]
    /\ UNCHANGED << build_root, build_pc, build_error, build_locals, builds, parse_vars,
                    load_vars, slug_vars >>

create_note ==
    \E title \in Titles :
        LET slug == slugify(title)
            path == _ensure_unique_path(DOMAIN workspace, "notes", slug)
        IN  Create("notes", path, NoteContent(title, Today, slug))

create_experiment ==
    \E title \in Titles :
        LET slug == slugify(title)
            path == _ensure_unique_path(DOMAIN workspace, "experiments", slug)
        IN  Create("experiments", path, ExperimentContent(title, Today, slug))

Next ==
    \/ create_note
    \/ create_experiment
    \/ ResetBuildDir
    \/ EnterDirectory
    \/ LoadDocument
    \/ NextDirectory
    \/ RenderDocument
    \/ CopyAssets
    \/ BuildIndexes
    \/ WriteIndexPages
    \/ BuildReturn

Spec == Init /\ [][Next]_vars

(***************************************************************************)
(* scaffold.py: slugify as one action on a title                           *)
(***************************************************************************)
\* the characters titles are made of: letters, a digit, a space, U+001F
\* (whitespace), a hyphen, a symbol and a letter outside ASCII
TitleChars == { "A", "b", "1", " ", "", "-", "!", "É" }

RECURSIVE Concat(_)
Concat(cs) == IF Len(cs) = 0 THEN "" ELSE cs[1] \o Concat(Tail(cs))

TitlePool ==
    { Concat(cs) : cs \in UNION { [1..n -> TitleChars] : n \in 0..MaxTitleLen } }
        \cup { "Hello, World!  Test" }

InitSlug ==
    /\ slugify_arg \in TitlePool
    /\ slugify_ret = None
    /\ ParseIdle
    /\ LoadIdle
    /\ SiteIdle

Slugify ==
    /\ slugify_ret = None
    /\ slugify_ret' = Str(slugify(slugify_arg))
    /\ UNCHANGED << slugify_arg, parse_vars, load_vars, site_vars >>

NextSlug == Slugify

SpecSlug == InitSlug /\ [][NextSlug]_vars

(***************************************************************************)
(* Properties of build_site                                                *)
(***************************************************************************)
EmptyRoot == [exists |-> TRUE, files |-> NoFiles, dirs |-> {}]

\* the tags of the tag map, and the list of a tag
TagsOfMap == { tag_map[i].tag : i \in DOMAIN tag_map }
ListOfTag(tag) == tag_map[CHOOSE i \in DOMAIN tag_map : tag_map[i].tag = tag].items
Discovered == build_pc \in { "render", "indexes", "pages", "done" }
IndexesBuilt == build_pc \in { "pages", "done" }

\* C2: a build_site call that follows another one on the unchanged workspace
\* leaves the output root (paths and contents) as the first call left it,
\* whatever the output root held before the first call.
C2_BuildIdempotent ==
    (build_pc \in { "done", "failed" } /\ last_run.valid)
        => build_root = last_run.build_root

\* a second successful build of two or more documents with tags and assets
C2_Witness ==
    /\ build_pc = "done"
    /\ last_run.valid
    /\ builds = 2
    /\ Len(documents) >= 2
    /\ TagsOfMap # {}
    /\ "assets/logo.png" \in DOMAIN build_root.files
    /\ last_run.build_root = build_root

\* a precedes b in the order of Python strings, for strings of printable
\* ASCII: at the first position where they differ a has the character that
\* comes first in the ASCII table, or a ends there and b does not
Precedes(a, b) ==
    LET Ascii ==
            " !\"#$%&'()*+,-./0123456789:;<=>?@ABCDEFGHIJKLMNOPQRSTUVWXYZ[\\]^_"
                \o "abcdefghijklmnopqrstuvwxyz{|}~"
        rank(c) == CHOOSE i \in 1..Len(Ascii) : Char(Ascii, i) = c
        shared == { n \in 0..Len(a) : n <= Len(b) /\ SubSeq(a, 1, n) = SubSeq(b, 1, n) }
        n == CHOOSE k \in shared : \A m \in shared : m <= k
    IN  IF n = Len(a) THEN n < Len(b)
        ELSE IF n = Len(b) THEN FALSE
        ELSE rank(Char(a, n + 1)) < rank(Char(b, n + 1))

\* the text lacks the opening front-matter delimiter
MissingOpening(text) ==
    LET ls == splitlines(text) IN
    Len(ls) = 0 \/ strip(ls[1], Whitespace) # "---"

\* the text lacks the opening or the closing front-matter delimiter
MissingDelimiter(text) ==
    LET ls == splitlines(text) IN
    \/ MissingOpening(text)
    \/ \A i \in 2..Len(ls) : strip(ls[i], Whitespace) # "---"

Matched == glob(workspace, "notes") \cup glob(workspace, "experiments")

\* the matched files that are malformed, and the error load_rflow_file
\* raises on each
Malformed == { p \in Matched \cap DOMAIN workspace : MissingDelimiter(workspace[p]) }
DelimiterError(p) ==
    "ValueError: Invalid .rflow file (missing "
        \o (IF MissingOpening(workspace[p]) THEN "opening" ELSE "close")
        \o " ---): " \o p

\* what discovery makes of a matched entry: the error of reading a
\* directory, or the outcome of loading, parsing and resolving the file
Outcome(p) ==
    IF p \notin DOMAIN workspace THEN Raise("IsADirectoryError: " \o p)
    ELSE ResolveDocument(IF startswith(p, "notes/") THEN "note" ELSE "experiment",
                         p, workspace[p])
Failing == { p \in Matched : ~Outcome(p).ok }

\* discovery reaches entry p before entry q: notes/ comes before
\* experiments/, and the entries of one directory come in the order of
\* their paths
ReachedBefore(p, q) ==
    IF startswith(p, "notes/") = startswith(q, "notes/") THEN Precedes(p, q)
    ELSE startswith(p, "notes/")
First(entries) == CHOOSE p \in entries : \A q \in entries \ { p } : ReachedBefore(p, q)

\* the build has aborted with the error of entry p
AbortedOn(p) ==
    /\ build_error = Outcome(p).error
    /\ p \in Malformed => build_error = DelimiterError(p)

\* no build gets past discovery, and from the reset on the output root is an
\* existing empty directory
NothingWritten ==
    /\ build_pc \in { "idle", "discover", "load", "failed" }
    /\ build_root = EmptyRoot

\* C3 as the spec states it: when a file matched in notes/ or experiments/
\* lacks a front-matter delimiter, discovery returns no list, build_site
\* aborts with the delimiter error of a malformed file, and no page, asset,
\* index or tag page is written, also for well-formed documents sorting
\* before the bad file: the output root is an existing empty directory.
C3_FailFastThatError ==
    builds > 0 =>
        /\ NothingWritten \/ Malformed = {}
        /\ (build_pc = "failed" /\ Malformed # {})
              => build_error \in { DelimiterError(p) : p \in Malformed }

\* C3, amended: when a file matched in notes/ or experiments/ lacks a
\* front-matter delimiter, discovery returns no list and build_site aborts
\* with the error of the first matched entry, in discovery order, that
\* fails (the delimiter error of the malformed file when that file is the
\* first to fail), and no page, asset, index or tag page is written, also
\* for well-formed documents sorting before the bad file: the output root
\* is an existing empty directory.
C3_FailFastFirstError ==
    builds > 0 =>
        /\ NothingWritten \/ Malformed = {}
        /\ (build_pc = "failed" /\ Malformed # {})
              => (documents = << >> /\ AbortedOn(First(Failing)))

\* the build has failed on notes/b.rflow, with the error of its missing
\* delimiter, after loading the well-formed notes/a.rflow
C3_Witness ==
    /\ build_pc = "failed"
    /\ { "notes/a.rflow", "notes/b.rflow" } \subseteq DOMAIN workspace
    /\ workspace["notes/a.rflow"] = DocDated1
    /\ ~MissingDelimiter(workspace["notes/a.rflow"])
    /\ MissingDelimiter(workspace["notes/b.rflow"])
    /\ build_error = DelimiterError("notes/b.rflow")
    /\ build_root = EmptyRoot

\* the discovered document of a source path
DocumentAt(path) ==
    documents[CHOOSE i \in DOMAIN documents : documents[i].source_path = path]

\* C4: after any sequence of create_note / create_experiment calls,
\* discovery resolves pairwise distinct (kind, slug) pairs for the created
\* documents, so that each of them has a page path of its own.
C4_CreatedIdentifiersDistinct ==
    Discovered =>
        \A i, j \in DOMAIN created :
            i # j =>
                /\ << DocumentAt(created[i]).kind, DocumentAt(created[i]).slug >>
                     # << DocumentAt(created[j]).kind, DocumentAt(created[j]).slug >>
                /\ PagePath(DocumentAt(created[i])) # PagePath(DocumentAt(created[j]))

\* C5: after a successful build_site every discovered document d has the
\* file {section}/{d.slug}/index.html, holding the rendering of d's own
\* Document.
C5_EveryDocumentHasItsPage ==
    build_pc = "done" =>
        \A i \in DOMAIN documents :
            /\ PagePath(documents[i]) \in DOMAIN build_root.files
            /\ build_root.files[PagePath(documents[i])]
                 = render_document(documents[i].document)

\* one copy of each item per occurrence of the tag in its tags, in order
RECURSIVE Occurrences(_, _)
Occurrences(tags, tag) ==
    IF Len(tags) = 0 THEN 0
    ELSE (IF tags[1] = tag THEN 1 ELSE 0) + Occurrences(Tail(tags), tag)

RECURSIVE Copies(_, _)
Copies(x, n) == IF n = 0 THEN << >> ELSE << x >> \o Copies(x, n - 1)

RECURSIVE TaggedInOrder(_, _)
TaggedInOrder(items, tag) ==
    IF Len(items) = 0 THEN << >>
    ELSE Copies(items[1], Occurrences(items[1].tags, tag))
            \o TaggedInOrder(Tail(items), tag)

\* C9: in every list of the tag map each note precedes each experiment,
\* whatever their dates, and the notes (the experiments) of the list follow
\* one another as they do in the date-descending notes (experiments) list.
C9_TagMapNotesBeforeExperiments ==
    IndexesBuilt =>
        \A tag \in TagsOfMap :
            LET l == ListOfTag(tag) IN
            /\ \A i, j \in DOMAIN l :
                  i < j => ~(l[i].kind = "experiment" /\ l[j].kind = "note")
            /\ SelectSeq(l, LAMBDA x : x.kind = "note") = TaggedInOrder(note_items, tag)
            /\ SelectSeq(l, LAMBDA x : x.kind = "experiment")
                 = TaggedInOrder(experiment_items, tag)

C10_Key(item) == IF item.date = None THEN "" ELSE str(item.date)

\* two notes and then an experiment under tag x, the experiment dated after
\* the first note
C9_Witness ==
    /\ IndexesBuilt
    /\ "x" \in TagsOfMap
    /\ Len(ListOfTag("x")) = 3
    /\ ListOfTag("x")[1].kind = "note"
    /\ ListOfTag("x")[2].kind = "note"
    /\ ListOfTag("x")[3].kind = "experiment"
    /\ Precedes(C10_Key(ListOfTag("x")[1]), C10_Key(ListOfTag("x")[3]))

Count(seq, x) == Cardinality({ i \in DOMAIN seq : seq[i] = x })

KindList(items, kind) ==
    /\ \A i \in DOMAIN items : items[i].kind = kind
    /\ Len(items) = Cardinality({ i \in DOMAIN documents : documents[i].kind = kind })
    /\ \A i \in DOMAIN documents :
          documents[i].kind = kind =>
              Count(items, _document_to_index_item(documents[i]))
                = Cardinality({ j \in DOMAIN documents :
                                  /\ documents[j].kind = kind
                                  /\ _document_to_index_item(documents[j])
                                       = _document_to_index_item(documents[i]) })
    /\ \A i, j \in DOMAIN items :
          i < j => ~Precedes(C10_Key(items[i]), C10_Key(items[j]))

\* C10: build_indexes splits the documents by resolved kind into the notes
\* list and the experiments list, each holding exactly the items of the
\* documents of its kind, in non-increasing order of the key "date as a
\* string, or the empty string when absent" (undated documents last).
C10_ListsPartitionedAndSorted ==
    IndexesBuilt =>
        /\ KindList(note_items, "note")
        /\ KindList(experiment_items, "experiment")
        /\ Len(note_items) + Len(experiment_items) = Len(documents)

\* the undated experiment found in notes/ has been moved behind the dated
\* experiment found in experiments/
C10_Witness ==
    /\ IndexesBuilt
    /\ Len(experiment_items) = 2
    /\ experiment_items[1].date # None
    /\ experiment_items[2].date = None
    /\ documents[1].kind = "experiment"
    /\ _document_to_index_item(documents[1]) = experiment_items[2]

\* the kind implied by the directory a file was found in
DirectoryKind(path) == IF startswith(path, "notes/") THEN "note" ELSE "experiment"

\* the metadata mapping of a discovered document
MetaOf(site_doc) == site_doc.document.metadata

\* the keys of a metadata mapping
KeysOf(meta) == { meta.items[i].k : i \in DOMAIN meta.items }

\* C11: the resolved kind is the metadata 'type' value only when that value
\* is exactly the string 'note' or 'experiment'; for every other value
\* (absent, another spelling such as 'Note', a non-string) it is the kind
\* implied by the directory of the file.
C11_KindExactTypeOrDirectory ==
    Discovered =>
        \A i \in DOMAIN documents :
            LET d == documents[i]
                type == dict_get(MetaOf(d), "type")
            IN  d.kind = IF type \in { Str("note"), Str("experiment") }
                         THEN type.s
                         ELSE DirectoryKind(d.source_path)

\* the file name of a path without its directories and its extension
FileNameNoExtension(path) ==
    LET slash == CHOOSE k \in 0..Len(path) :
                    /\ (k > 0 => Char(path, k) = "/")
                    /\ \A j \in (k + 1)..Len(path) : Char(path, j) # "/"
        dot == CHOOSE k \in 1..Len(path) :
                    /\ Char(path, k) = "."
                    /\ \A j \in (k + 1)..Len(path) : Char(path, j) # "."
    IN  SubSeq(path, slash + 1, dot - 1)

\* C12: the resolved slug is the metadata 'slug' value whenever that key is
\* present, and the file name without extension otherwise; notes/a.rflow
\* without 'slug' and 'type' resolves to slug 'a' and kind 'note'.
C12_SlugPresentOrFileName ==
    Discovered =>
        \A i \in DOMAIN documents :
            LET d == documents[i] IN
            /\ d.slug = IF Str("slug") \in KeysOf(MetaOf(d))
                        THEN str(dict_get(MetaOf(d), "slug"))
                        ELSE FileNameNoExtension(d.source_path)
            /\ (/\ d.source_path = "notes/a.rflow"
                /\ { Str("slug"), Str("type") } \cap KeysOf(MetaOf(d)) = {})
                  => (d.slug = "a" /\ d.kind = "note")

\* the index items in the order the tag map is filled from
AllItems == note_items \o experiment_items

\* C20: every list of the tag map holds exactly the index items whose tags
\* include the tag, each of them once, also when a document names the tag
\* more than once; no tag maps to an empty list.
C20_TagListsHoldEachItemOnce ==
    IndexesBuilt =>
        \A tag \in TagsOfMap :
            /\ Len(ListOfTag(tag)) > 0
            /\ \A i \in DOMAIN AllItems :
                  Count(ListOfTag(tag), AllItems[i])
                    = IF \E j \in DOMAIN AllItems[i].tags : AllItems[i].tags[j] = tag
                      THEN Count(AllItems, AllItems[i])
                      ELSE 0
            /\ \A k \in DOMAIN ListOfTag(tag) :
                  \E i \in DOMAIN AllItems : AllItems[i] = ListOfTag(tag)[k]

\* the kinds of file the build writes, told by their content
IsAsset(file) == "bytes" \in DOMAIN file
IsDocumentPage(file) == ~IsAsset(file) /\ file.template.name = "document.html"
IsIndexPage(file) == ~IsAsset(file) /\ file.template.name # "document.html"

\* the step writes the file at p: it creates it or changes its content
Written(p) ==
    /\ p \in DOMAIN build_root'.files
    /\ (p \in DOMAIN build_root.files => build_root'.files[p] # build_root.files[p])

\* the files of the workspace below assets/
Assets == { p \in DOMAIN workspace : startswith(p, "assets/") }

\* C15: build_site keeps a fixed order.  The output root is reset before
\* discovery and stays empty until discovery is over; a document page is
\* written only once every matched file is discovered, and before any asset
\* or index page; an asset is copied only once every document has its page;
\* an index page is written only once both lists and the tag map are built
\* and the assets are copied, and after the index pages nothing is written.
C15_StepsInFixedOrder ==
    /\ [](build_pc \in { "discover", "load" } => build_root = EmptyRoot)
    /\ [][\A p \in DOMAIN build_root'.files :
            (Written(p) /\ IsDocumentPage(build_root'.files[p])) =>
                /\ Len(documents) = Cardinality(Matched)
                /\ documents' = documents
                /\ \A q \in DOMAIN build_root'.files :
                      IsDocumentPage(build_root'.files[q])]_vars
    /\ [][\A p \in DOMAIN build_root'.files :
            (Written(p) /\ IsAsset(build_root'.files[p])) =>
                /\ \A i \in DOMAIN documents :
                      PagePath(documents[i]) \in DOMAIN build_root.files
                /\ \A q \in DOMAIN build_root'.files :
                      ~IsIndexPage(build_root'.files[q])]_vars
    /\ [][\A p \in DOMAIN build_root'.files :
            (Written(p) /\ IsIndexPage(build_root'.files[p])) =>
                /\ KindList(note_items, "note")
                /\ KindList(experiment_items, "experiment")
                /\ TagsOfMap = UNION { { AllItems[i].tags[j] :
                                                j \in DOMAIN AllItems[i].tags } :
                                            i \in DOMAIN AllItems }
                /\ UNCHANGED << note_items, experiment_items, tag_map, slug_vars >>
                /\ \A i \in DOMAIN documents :
                      PagePath(documents[i]) \in DOMAIN build_root.files
                /\ \A q \in Assets :
                      /\ q \in DOMAIN build_root.files
                      /\ build_root.files[q] = Bytes(workspace[q])]_vars
    /\ [][((\E p \in DOMAIN build_root.files : IsIndexPage(build_root.files[p]))
                /\ build_root' # build_root)
            => build_root' = EmptyRoot]_vars

\* a first build of three documents with an asset and a tag page has ended
C15_Witness ==
    /\ build_pc = "done"
    /\ builds = 1
    /\ Len(documents) = 3
    /\ "assets/logo.png" \in DOMAIN build_root.files
    /\ "index.html" \in DOMAIN build_root.files
    /\ "tags/x/index.html" \in DOMAIN build_root.files
    /\ \A i \in 1..3 : PagePath(documents[i]) \in DOMAIN build_root.files

\* where the page of a tag goes, as the file system resolves it
TagPagePath(tag) == normpath(Append(parts(truediv("tags", tag)), "index.html"))

\* the directories a build of the discovered documents makes
DirectoriesOfBuild ==
    LET on_the_way(path_parts) ==
            { normpath(SubSeq(path_parts, 1, k)) : k \in 0..Len(path_parts) }
        above(path) == SubSeq(parts(path), 1, Len(parts(path)) - 1)
    IN  UNION ( { { "notes", "experiments" } }
                \cup { on_the_way(output_dir(documents[i])) : i \in DOMAIN documents }
                \cup { on_the_way(parts(truediv("tags", tag))) : tag \in TagsOfMap }
                \cup { on_the_way(above(p)) : p \in Assets } )

\* C16: after a successful build nothing that lay below the output root
\* before the build remains unless this build wrote it again: every
\* directory of the final tree is one this build made, and every file is the
\* page of a discovered document, the home page, an index page, the page of
\* a tag of the tag map, or the copy of an asset of the workspace.
C16_OnlyFilesOfThisBuild ==
    build_pc = "done" =>
        /\ build_root.exists
        /\ build_root.dirs \subseteq DirectoriesOfBuild
        /\ \A p \in DOMAIN build_root.files :
            LET file == build_root.files[p] IN
            \/ /\ p \in Assets
               /\ file = Bytes(workspace[p])
            \/ \E i \in DOMAIN documents :
                  /\ p = PagePath(documents[i])
                  /\ file = render_document(documents[i].document)
            \/ p = "index.html"
                  /\ file = HomePage(env, note_items, experiment_items, tag_map)
            \/ p = "notes/index.html" /\ file = NotesIndexPage(env, note_items)
            \/ p = "experiments/index.html"
                  /\ file = ExperimentsIndexPage(env, experiment_items)
            \/ \E tag \in TagsOfMap :
                  /\ p = TagPagePath(tag)
                  /\ file = TagPage(env, tag, ListOfTag(tag))

\* the first build has ended: the stale old.html is gone and the path of the
\* stale notes/s/index.html holds the page of a document of this workspace
C16_Witness ==
    /\ build_pc = "done"
    /\ builds = 1
    /\ "old.html" \notin DOMAIN build_root.files
    /\ "notes/s/index.html" \in DOMAIN build_root.files
    /\ build_root.files["notes/s/index.html"] # Bytes("stale")
    /\ "assets/logo.png" \in DOMAIN build_root.files

(***************************************************************************)
(* Properties of scaffold.py                                               *)
(***************************************************************************)
BasePath(dir, slug) == dir \o "/" \o slug \o ".rflow"
NumberedPath(dir, slug, n) == dir \o "/" \o slug \o "-" \o Decimal(n) \o ".rflow"

\* nothing, file or directory, exists at the path, and it is the base path or
\* the first free numbered one
FirstFreePath(existing, dir, slug, path) ==
    /\ ~exists(existing, path)
    /\ \/ path = BasePath(dir, slug)
       \/ /\ exists(existing, BasePath(dir, slug))
          /\ \E n \in 2..(Cardinality(existing) + 2) :
                /\ path = NumberedPath(dir, slug, n)
                /\ \A k \in 2..(n - 1) : exists(existing, NumberedPath(dir, slug, k))

\* C14: in every directory state the commands reach, _ensure_unique_path
\* returns a path at which no file exists, slug.rflow when that is free and
\* otherwise slug-n.rflow for the smallest free n >= 2 (found within as many
\* tries as the directory has files); no create_note / create_experiment
\* call changes or replaces a file that existed before the call.
C14_UniquePathNoOverwrite ==
    /\ [](\A dir \in { "notes", "experiments" }, title \in Titles :
            FirstFreePath(DOMAIN workspace, dir, slugify(title),
                          _ensure_unique_path(DOMAIN workspace, dir, slugify(title))))
    /\ [][created' # created =>
            /\ created'[Len(created')] \notin DOMAIN workspace
            /\ DOMAIN workspace' = DOMAIN workspace \cup { created'[Len(created')] }
            /\ \A p \in DOMAIN workspace : workspace'[p] = workspace[p]]_vars

\* two notes of the same title exist, the second at the first numbered
\* path, and a third one would go to the second numbered path
C14_Witness ==
    /\ created = << "notes/my-note.rflow", "notes/my-note-2.rflow" >>
    /\ { "notes/my-note.rflow", "notes/my-note-2.rflow" } \subseteq DOMAIN workspace
    /\ _ensure_unique_path(DOMAIN workspace, "notes", "my-note") = "notes/my-note-3.rflow"

SlugAlphabet ==
    { Char(LowerCase, i) : i \in 1..Len(LowerCase) }
        \cup { Char(Digits, i) : i \in 1..Len(Digits) } \cup { "-" }

Alphanumeric ==
    { Char(LowerCase, i) : i \in 1..Len(LowerCase) }
        \cup { Char(UpperCase, i) : i \in 1..Len(UpperCase) }
        \cup { Char(Digits, i) : i \in 1..Len(Digits) }

WellFormedSlug(v) ==
    /\ Len(v) > 0
    /\ \A i \in 1..Len(v) : Char(v, i) \in SlugAlphabet
    /\ Char(v, 1) # "-"
    /\ Char(v, Len(v)) # "-"
    /\ \A i \in 1..(Len(v) - 1) : ~(Char(v, i) = "-" /\ Char(v, i + 1) = "-")

\* C19: the result of slugify is 'untitled' or a non-empty string over
\* [a-z0-9-] without a leading hyphen, a trailing hyphen or two adjacent
\* hyphens; slugify maps its own result to itself, 'Hello, World!  Test' to
\* 'hello-world-test', and a title without a letter or digit to 'untitled'.
C19_SlugifyShape ==
    slugify_ret # None =>
        /\ slugify_ret.s = "untitled" \/ WellFormedSlug(slugify_ret.s)
        /\ slugify(slugify_ret.s) = slugify_ret.s
        /\ slugify_arg = "Hello, World!  Test" => slugify_ret.s = "hello-world-test"
        /\ (\A i \in 1..Len(slugify_arg) : Char(slugify_arg, i) \notin Alphanumeric)
              => slugify_ret.s = "untitled"

\* the example of the spec has been slugified
C19_Witness ==
    /\ slugify_arg = "Hello, World!  Test"
    /\ slugify_ret = Str("hello-world-test")

(***************************************************************************)
(* Properties of load_rflow_file                                           *)
(***************************************************************************)
FileLines == splitlines(file_text)
OpeningPresent == Len(FileLines) > 0 /\ strip(FileLines[1], Whitespace) = "---"

\* the lines, from line 2 on, whose trimmed form is exactly "---"
TrimmedClosers ==
    { i \in 2..Len(FileLines) : strip(FileLines[i], Whitespace) = "---" }
FirstTrimmedCloser == CHOOSE i \in TrimmedClosers : \A j \in TrimmedClosers : i <= j

\* C6: with the opening delimiter present, the closing delimiter is the
\* first line from line 2 on whose trimmed form is exactly "---": loading
\* fails with the missing-closing-delimiter error exactly when no such line
\* exists, and otherwise the body is made of the lines after that line.
C6_ClosingDelimiterTrimmed ==
    (load_pc \in {"returned", "raised"} /\ OpeningPresent)
        => IF TrimmedClosers = {}
           THEN /\ ~raw.ok
                /\ raw.error = "ValueError: Invalid .rflow file (missing close ---): doc.rflow"
           ELSE /\ raw.ok
                /\ raw.body = lstrip(join(SubSeq(FileLines, FirstTrimmedCloser + 1,
                                                  Len(FileLines))), {"\n"})

\* C13: a metadata block that is present but is not a mapping makes
\* load_rflow_file fail: the loader never returns a raw document whose
\* metadata is a sequence or a bare scalar.
C13_LoaderReturnsMappingOnly ==
    load_pc = "returned" => raw.metadata.t = "dict"

(***************************************************************************)
(* Properties of parse_rflow                                               *)
(***************************************************************************)
IsSigilLine(l) == startswith(strip(l, Whitespace), ":::")
IsClosingLine(l) == strip(l, Whitespace) = ":::"

\* the body is a line ":::unknown", then plain lines, then a line ":::"
UnknownSandwich ==
    /\ Len(lines) >= 3
    /\ lines[1] = ":::unknown"
    /\ lines[Len(lines)] = ":::"
    /\ \A i \in 2..(Len(lines) - 1) : ~IsSigilLine(lines[i])

\* C1: a body made of a line ":::unknown", plain text lines and a line ":::"
\* parses to exactly one Markdown block holding all of those lines, joined
\* in order (the unknown marker neither flushes the buffer nor emits a block).
C1_UnknownMarkerSingleBlock ==
    (parse_pc = "done" /\ UnknownSandwich)
        => blocks = << MarkdownBlock(join(lines)) >>

NoSigilLines == \A i \in 1..Len(lines) : ~IsSigilLine(lines[i])
HasNonWhitespace(text) == Len(strip(text, Whitespace)) > 0

\* C7: a body without any ":::" line parses to exactly one Markdown block
\* when it has a non-whitespace character, and to no block when it is empty
\* or made of whitespace only (spaces and tabs included).
C7_PlainBodyOneOrZeroBlocks ==
    (parse_pc = "done" /\ NoSigilLines)
        => IF HasNonWhitespace(body)
           THEN Len(blocks) = 1 /\ blocks[1].type = "markdown"
           ELSE blocks = << >>

\* the line about to be scanned is a recognised opening marker and no later
\* line trims to ":::"
UnclosedOpener ==
    /\ InLoop
    /\ stripped \in RecognisedMarkers
    /\ \A j \in (index + 2)..Len(lines) : ~IsClosingLine(lines[j])

BlockTypeOf(marker) == SubSeq(marker, 4, Len(marker))

\* C8: parse_rflow terminates on every body: the line index never passes the
\* number of lines and every step that stays in the loop strictly advances
\* it, so the loop is left after at most Len(lines) iterations.  A recognised
\* opening marker without a later closing ":::" consumes every remaining
\* line in one step (there is no error outcome), its block is the last one
\* emitted there, and the return that follows adds no block.
C8_TerminatesConsumesToEnd ==
    /\ [](index <= Len(lines))
    /\ [][parse_pc' = "scan" => index' > index]_vars
    /\ [][UnclosedOpener =>
            /\ index' = Len(lines)
            /\ current_plain' = << >>
            /\ blocks'[Len(blocks')].type = BlockTypeOf(stripped)]_vars
    /\ [][(parse_pc = "scan" /\ index = Len(lines) /\ current_plain = << >>)
            => (blocks' = blocks /\ parse_pc' = "done")]_vars

\* the loop run as a function gives the blocks the state machine returns
ParseLoopAgrees ==
    parse_pc = "done" =>
        blocks = parse_rflow([metadata |-> PyDict(<< >>), body |-> body, path |-> ""]).blocks

\* an unclosed :::log, written after U+001F, with two lines after it has
\* been parsed to the end
C8_Witness ==
    /\ parse_pc = "done"
    /\ Len(lines) = 3
    /\ lines[1] = ":::log"
    /\ \A j \in 2..3 : ~IsClosingLine(lines[j])
    /\ Len(blocks) = 1
    /\ index = 3

(***************************************************************************)
(* Properties of the sub-parsers, on bodies that open with a block         *)
(***************************************************************************)
\* the lines between the opening marker on line 1 and the first closing
\* marker after it, or the end of the body
InnerLines ==
    LET closers == { j \in 2..Len(lines) : strip(lines[j], Whitespace) = ":::" }
        last == IF closers = {} THEN Len(lines)
                ELSE (CHOOSE j \in closers : \A k \in closers : j <= k) - 1
    IN  SubSeq(lines, 2, last)

\* a blank line: nothing is left after trimming
IsBlankLine(l) == strip(l, Whitespace) = ""

RECURSIVE DropLeadingBlank(_)
DropLeadingBlank(ls) ==
    IF Len(ls) > 0 /\ IsBlankLine(ls[1]) THEN DropLeadingBlank(Tail(ls)) ELSE ls

RECURSIVE DropTrailingBlank(_)
DropTrailingBlank(ls) ==
    IF Len(ls) > 0 /\ IsBlankLine(ls[Len(ls)])
    THEN DropTrailingBlank(SubSeq(ls, 1, Len(ls) - 1))
    ELSE ls

\* the first block has been emitted for the opening marker on line 1
FirstBlockOf(opener) ==
    /\ parse_pc \in { "scan", "done" }
    /\ Len(lines) > 0 /\ lines[1] = opener
    /\ index > 0

HasColon(l) == \E k \in 1..Len(l) : Char(l, k) = ":"

\* the position at which the header phase ends, Len + 1 when it never does
HeaderEnd(inner) ==
    CHOOSE e \in 1..(Len(inner) + 1) :
        /\ \A i \in 1..(e - 1) : ~IsBlankLine(inner[i]) /\ HasColon(inner[i])
        /\ e <= Len(inner) => (IsBlankLine(inner[e]) \/ ~HasColon(inner[e]))

HeaderLines(inner) == SubSeq(inner, 1, HeaderEnd(inner) - 1)

BodyLines(inner) ==
    LET e == HeaderEnd(inner) IN
    IF e <= Len(inner) /\ IsBlankLine(inner[e])
    THEN SubSeq(inner, e + 1, Len(inner))
    ELSE SubSeq(inner, e, Len(inner))

FirstColon(l) == CHOOSE k \in 1..Len(l) : Char(l, k) = ":" /\ \A j \in 1..(k - 1) : Char(l, j) # ":"
KeyOf(l) ==
    LET t == strip(l, Whitespace) IN strip(SubSeq(t, 1, FirstColon(t) - 1), Whitespace)
ValueOf(l) ==
    LET t == strip(l, Whitespace) IN strip(SubSeq(t, FirstColon(t) + 1, Len(t)), Whitespace)

\* the value of the last header line with the key, None when there is none
HeaderValue(headers, key) ==
    LET at == { i \in DOMAIN headers : KeyOf(headers[i]) = key } IN
    IF at = {} THEN None
    ELSE Str(ValueOf(headers[CHOOSE i \in at : \A j \in at : j <= i]))

\* C17: the Code sub-parser reads "key: value" header lines up to the first
\* blank line (dropped) or the first non-blank line without a colon (first
\* code line); every later line is code, also a blank one or one with a
\* colon.  language and caption are the header values of 'lang' and
\* 'caption', code is the body lines joined without the trailing blank
\* lines: 'lang: python', a blank line, 'print(1)' give language 'python',
\* code 'print(1)' and no caption.  A blank line is, in the header phase
\* and at the end of the body alike, a line that is empty after trimming.
C17_CodeHeaderThenBody ==
    FirstBlockOf(":::code") =>
        /\ blocks[1] = CodeBlock(HeaderValue(HeaderLines(InnerLines), "lang"),
                                 join(DropTrailingBlank(BodyLines(InnerLines))),
                                 HeaderValue(HeaderLines(InnerLines), "caption"))
        /\ InnerLines = << "lang: python", "", "print(1)" >>
              => blocks[1] = CodeBlock(Str("python"), "print(1)", None)

\* C18: for the lines between the markers, the Summary content is the lines
\* joined without the leading and the trailing blank lines, the Log content
\* is the lines joined without the trailing blank lines only, every leading
\* blank line kept; the lines in between are unchanged in both.  A blank
\* line is a line that is empty after trimming.
C18_SummaryLogTrimAsymmetry ==
    /\ FirstBlockOf(":::summary") =>
          blocks[1] = SummaryBlock(join(DropLeadingBlank(DropTrailingBlank(InnerLines))))
    /\ FirstBlockOf(":::log") =>
          blocks[1] = LogBlock(join(DropTrailingBlank(InnerLines)))

====
